---------------------------- MODULE Spec2Model ----------------------------
(***************************************************************************)
(* Change-detection pipeline of web_monitoring_bots.                       *)
(*                                                                         *)
(* Two monitor variants share one NotificationManager:                     *)
(*   "monitor"            EnhancedWebsiteMonitor.check_for_changes, driven *)
(*                        by run_forever (monitor.py);                     *)
(*   "browser_automation" main() of browser_automation.py, one cycle per   *)
(*                        process, cache file shared by successive runs.   *)
(*                                                                         *)
(* A cycle is modelled statement by statement: todo is the sequence of     *)
(* calls the running handler still has to make, its head being the         *)
(* program counter.  events is the log of the observable effects of the    *)
(* current cycle (cache reads and writes, dispatcher calls, transport      *)
(* attempts, teardown), in program order.                                  *)
(***************************************************************************)
EXTENDS Naturals, Sequences, FiniteSets

VARIABLES
    variant,        \* which monitor runs: "monitor" | "browser_automation"
    config,         \* loaded configuration (notifications mapping keys, options)
    cache_file,     \* the persisted single-slot cache file
    now,            \* datetime.now(), one tick per cycle
    cycles,         \* cycles started so far
    todo,           \* remaining calls of the running cycle (head = next call)
    html_content,   \* monitor: result of fetch_page_content
    login_success,  \* browser: result of login_with_popup
    current_text,   \* current_text (monitor) / combined_string (browser)
    current_hash,   \* current_hash
    cached_data,    \* cached_data (monitor) / cached_content (browser)
    verdict,        \* branch taken by the cycle (the message it logs)
    raised,         \* an exception left the cycle handler
    events,         \* effects of the current cycle, in program order
    cache_before,   \* cache_file as it was when the cycle started
    loop,           \* run_forever: where the loop is and how its last cycle ended
    message,        \* dispatcher called on its own: the message argument
    handed,         \* dispatcher called on its own: message handed to each channel
    returned,       \* dispatcher called on its own: the value the call returned
    document,       \* extract_target_text called on its own: the parsed page
    extracted,      \* extract_target_text called on its own: what it returned
    page,           \* extract_course_headings: the rendered page
    scan,           \* extract_course_headings: position in the selector loop
    found_elements, \* extract_course_headings: found_elements
    unique_courses, \* extract_course_headings: what it returned
    scroller,       \* scroll_to_load_all_content: its locals and position
    popup,          \* login_with_popup: its position, acts and result
    resources,      \* the Playwright driver, browser and context of main
    fingerprints,   \* two runs of the browser variant: what each extracted
    previous        \* the cycle before the current one: verdict, text, save

vars == <<variant, config, cache_file, now, cycles, todo, html_content,
          login_success, current_text, current_hash, cached_data, verdict,
          raised, events, cache_before, loop, message, handed, returned,
          document, extracted, page, scan, found_elements, unique_courses,
          scroller, popup, resources, fingerprints, previous>>

\* state of the dispatcher called on its own
dispatchVars == <<message, handed, returned>>

\* state of the extraction functions called on their own
\* state of the browser methods called on their own
browserVars == <<popup, resources>>

\* state kept across two runs or cycles
runVars == <<fingerprints, previous>>

pureVars == <<document, extracted, page, scan, found_elements,
              unique_courses, scroller, browserVars, runVars>>

\* state of extract_course_headings
headingVars == <<page, scan, found_elements, unique_courses>>

\* no extraction function has been called on its own
NotRun == [found |-> FALSE, text |-> <<>>, ran |-> FALSE]

\* the selector loop before its first iteration: good_results_found = False
ScanStart == [pos |-> 1, good |-> FALSE, queried |-> <<>>]

\* extract_course_headings has not returned
NotReturned == [done |-> FALSE, courses |-> <<>>]

HeadingsIdle ==
    /\ page = <<>>
    /\ scan = ScanStart
    /\ found_elements = <<>>
    /\ unique_courses = NotReturned

\* scroll_to_load_all_content has not been called
ScrollIdle ==
    [pc |-> "idle", max_scrolls |-> 0, last_height |-> 0, scroll_count |-> 0,
     heights |-> <<>>, value |-> 0]

\* login_with_popup has not been called
PopupIdle ==
    [pc |-> "idle", step |-> 0, sel |-> 0, acts |-> <<>>, failures |-> 0,
     login_success |-> FALSE, value |-> "none"]

\* main has acquired nothing yet
NoResources ==
    [pc |-> "idle", playwright |-> "none", browser |-> "none",
     context |-> "none"]

BrowserIdle ==
    /\ popup = PopupIdle
    /\ resources = NoResources

\* no run has been made, no cycle is over
NoRuns == [pc |-> "idle", runs |-> <<>>, verdicts |-> <<>>]
NoPrevious == [verdict |-> "none", text |-> "-", saved |-> "none"]

RunsIdle ==
    /\ fingerprints = NoRuns
    /\ previous = NoPrevious

PureIdle ==
    /\ document = <<>>
    /\ extracted = NotRun
    /\ HeadingsIdle
    /\ scroller = ScrollIdle
    /\ BrowserIdle
    /\ RunsIdle

\* state of a monitoring cycle
cycleVars == <<variant, config, cache_file, now, cycles, todo, html_content,
               login_success, current_text, current_hash, cached_data,
               verdict, raised, events, cache_before>>

----------------------------------------------------------------------------
(* Bounds *)

\* largest number of channel keys in a notifications mapping
MaxChannels == 3
\* number of cycles a behaviour runs
MaxCycles == 2
\* longest message passed to the dispatcher, in characters
MaxMsgLen == 165
\* largest number of channel keys under which run_forever is followed
MaxLoopChannels == 1
\* largest number of elements in a parsed page
MaxElems == 2
\* largest number of text-bearing elements in the rendered cards
MaxCards == 2
\* largest max_scrolls passed to scroll_to_load_all_content
MaxScrolls == 3
\* largest document.body.scrollHeight the page reports
MaxHeight == 3
\* largest number of records extract_course_headings hands to
\* extract_all_offerings
MaxRecords == 2
\* largest number of clicks and fills that raise during one login
MaxLoginFailures == 2

----------------------------------------------------------------------------
(* Values *)

None == "<None>"
Unset == "<unset>"

\* extracted contents; EmptyText is the empty string
EmptyText == ""
Text1 == "  1. NATATION | N1 | Ecole"
Text2 == "  1. NATATION | N2 | Adultes"
Texts == {Text1, Text2}

\* placeholder assigned to combined_string when login_with_popup returns False
LoginFailedText == "Login failed - unable to extract course offerings"

\* faulty variant of MD5: a digest salted per run, as Python's built-in hash() is
MD5Salted(s) == <<"md5", s, now>>

\* hashlib.md5(s.encode("utf-8")).hexdigest(): a deterministic digest of the
\* content alone, taken to be collision-free on the contents of the model
MD5(s) == <<"md5", s>>

NoHash == <<>>

\* cached_data.get("hash") on a dict with no "hash" key: None
NoneHash == <<"None">>

\* faulty variant of CurrentHash: the digest is taken of the fetched page, not
\* of the text extracted from it
CurrentHashOfPage(text) == MD5(html_content)

\* current_hash = hashlib.md5(current_text.encode("utf-8")).hexdigest()
CurrentHash(text) == MD5(text)

\* notification keys NotificationManager looks up in its config
EmailKeys == <<"mailgun", "sendgrid", "temp_gmail", "mailtrap">>
SmsKeys == <<"twilio", "textbelt", "smsapi">>
ChatKeys == <<"discord", "telegram", "slack", "webhook">>

SeqRange(s) == {s[i] : i \in 1..Len(s)}

Channels == SeqRange(EmailKeys) \cup SeqRange(SmsKeys) \cup SeqRange(ChatKeys)

\* outcome of one transport call: success status, non-success status, exception
Outcomes == {"ok", "status", "raise"}

\* policies of the notify-on-unchanged option named by the specification
Policies == {"silent", "heartbeat"}


----------------------------------------------------------------------------
(* The cache file *)

AbsentFile == [kind |-> "absent"]

NoneData == [kind |-> "None"]
UnsetData == [kind |-> "unset"]

\* cache_data built and dumped by save_cached_content; the browser variant
\* writes no "url" field
CacheData(v, text, text_hash, stamp) ==
    IF v = "monitor"
    THEN [kind |-> "json", text |-> text, hash |-> text_hash,
          timestamp |-> stamp, url |-> "URL"]
    ELSE [kind |-> "json", text |-> text, hash |-> text_hash,
          timestamp |-> stamp]

\* a file json.load cannot parse: empty, cut short, or not JSON at all
CorruptFile == [kind |-> "corrupt"]

\* an exception leaving get_cached_content
RaisedData == [kind |-> "raise"]

\* faulty variant of GetCachedContent: json.load is not wrapped in try/except
GetCachedContentNoExcept(file) ==
    CASE file.kind = "absent" -> NoneData
      [] file.kind = "corrupt" -> RaisedData
      [] file.kind = "json" -> [file EXCEPT !.kind = "dict"]

\* get_cached_content: None when the file does not exist, None when reading
\* or parsing it raises (the exception is logged), else the parsed dict
GetCachedContent(file) ==
    CASE file.kind = "absent" -> NoneData
      [] file.kind = "corrupt" -> NoneData
      [] file.kind = "json" -> [file EXCEPT !.kind = "dict"]

\* key in d, for a parsed dict d
Has(d, key) == key \in DOMAIN d

\* d.get(key, default)
Get(d, key, default) == IF Has(d, key) THEN d[key] ELSE default

\* "not d" for a parsed dict d: the dict has no key
EmptyDict(d) == DOMAIN d = {"kind"}

\* Python truthiness of the values a cycle tests with "not x"
Falsy(x) == x = None \/ x = EmptyText

----------------------------------------------------------------------------
(* Calls and events *)

Call(op, msg) == [op |-> op, msg |-> msg]

Event(e, ch, msg, out) == [e |-> e, ch |-> ch, msg |-> msg, out |-> out]

ReadEvent == Event("read", "cache", "-", "-")
WriteEvent == Event("write", "cache", "-", "-")
CleanupEvent == Event("cleanup", "browser", "-", "-")
DispatchEvent(msg) == Event("dispatch", "all", msg, "-")
AttemptEvent(ch, msg, out) == Event("attempt", ch, msg, out)

\* first key of keys, in order, present in the mapping cfg; None if none is
FirstPresent(keys, cfg) ==
    IF \E i \in 1..Len(keys) : keys[i] \in cfg
    THEN keys[CHOOSE i \in 1..Len(keys) :
                  /\ keys[i] \in cfg
                  /\ \A j \in 1..(i - 1) : keys[j] \notin cfg]
    ELSE None

\* faulty variant of Provider: the methods do not test for their key
ProviderUnguarded(op, cfg) ==
    CASE op = "send_temporary_email" -> EmailKeys[1]
      [] op = "send_sms" -> SmsKeys[1]
      [] op = "send_discord" -> "discord"
      [] op = "send_telegram" -> "telegram"
      [] op = "send_slack" -> "slack"
      [] op = "send_webhook" -> "webhook"

\* the one transport a send_* method uses under cfg: the if/elif chain of
\* send_temporary_email and of send_sms, the single key test of the others
Provider(op, cfg) ==
    CASE op = "send_temporary_email" -> FirstPresent(EmailKeys, cfg)
      [] op = "send_sms" -> FirstPresent(SmsKeys, cfg)
      [] op = "send_discord" -> FirstPresent(<<"discord">>, cfg)
      [] op = "send_telegram" -> FirstPresent(<<"telegram">>, cfg)
      [] op = "send_slack" -> FirstPresent(<<"slack">>, cfg)
      [] op = "send_webhook" -> FirstPresent(<<"webhook">>, cfg)

\* faulty variant of Handled: the send_* methods have no try/except
HandledNoExcept(op, out) == out # "raise"

\* every send_* method wraps its body in try/except Exception and logs
Handled(op, out) == TRUE

Guarded(cond, call) == IF cond THEN <<call>> ELSE <<>>

\* calls send_all_notifications makes, in order, each behind its guard
SendAllCalls(cfg, msg) ==
    Guarded(\E k \in SeqRange(EmailKeys) : k \in cfg,
            Call("send_temporary_email", msg))
    \o Guarded(\E k \in SeqRange(SmsKeys) : k \in cfg, Call("send_sms", msg))
    \o Guarded("discord" \in cfg, Call("send_discord", msg))
    \o Guarded("telegram" \in cfg, Call("send_telegram", msg))
    \o Guarded("slack" \in cfg, Call("send_slack", msg))
    \o Guarded("webhook" \in cfg, Call("send_webhook", msg))

----------------------------------------------------------------------------
(* Message texts *)

\* characters kept by the SMS truncation, and the SMS limit it is written for
SmsKeep == 150
SmsCap == 160

\* a text of n characters, each character standing for its position
Text(n) == [i \in 1..n |-> i]

\* the three characters "..."
Ellipsis == <<0, 0, 0>>

\* faulty variant of SmsMessage: the text is cut at the limit itself
SmsMessageCutAtCap(m) ==
    IF Len(m) > SmsCap THEN SubSeq(m, 1, SmsCap) \o Ellipsis ELSE m

\* sms_message = message[:150] + "..." if len(message) > 150 else message
SmsMessage(m) ==
    IF Len(m) > SmsKeep THEN SubSeq(m, 1, SmsKeep) \o Ellipsis ELSE m

\* the text send_all_notifications passes to the send_* method op
HandedMessage(op, m) == IF op = "send_sms" THEN SmsMessage(m) ELSE m

\* send_* methods the programs also call on their own
DirectOps == {"send_discord", "send_telegram"}

\* send_all_notifications and the send_* methods end without a return
\* statement
ReturnValue(call) == None

----------------------------------------------------------------------------
(* Decisions of a cycle *)

\* check_for_changes after a fetch: "if not html_content: return"
AfterFetch(html) ==
    IF Falsy(html) THEN <<>> ELSE <<Call("extract_target_text", "-")>>

\* faulty variant of AfterExtract: the "if not current_text: return" guard is missing
AfterExtractUnguarded(text) == <<Call("compare", "-")>>

\* check_for_changes after extraction: "if not current_text: return"
AfterExtract(text) ==
    IF Falsy(text) THEN <<>> ELSE <<Call("compare", "-")>>

\* check_for_changes: the branch taken on the cached data
CheckForChangesBranch(cached, hash) ==
    IF cached = NoneData THEN "first_run"
    ELSE IF hash # Get(cached, "hash", NoneHash) THEN "changed"
    ELSE "unchanged"

\* faulty variant of CheckForChangesPlan: the first run alerts like a change
CheckForChangesPlanAlertFirstRun(branch) ==
    CASE branch = "first_run" ->
            <<Call("send_all_notifications", "alert"),
              Call("save_cached_content", "-")>>
      [] branch = "changed" ->
            <<Call("send_all_notifications", "alert"),
              Call("save_cached_content", "-")>>
      [] branch = "unchanged" -> <<>>

\* faulty variant of CheckForChangesPlan: the cache is updated before the alerts go out
CheckForChangesPlanSaveFirst(branch) ==
    CASE branch = "first_run" -> <<Call("save_cached_content", "-")>>
      [] branch = "changed" ->
            <<Call("save_cached_content", "-"),
              Call("send_all_notifications", "alert")>>
      [] branch = "unchanged" -> <<>>

\* check_for_changes: the calls of each branch
CheckForChangesPlan(branch) ==
    CASE branch = "first_run" -> <<Call("save_cached_content", "-")>>
      [] branch = "changed" ->
            <<Call("send_all_notifications", "alert"),
              Call("save_cached_content", "-")>>
      [] branch = "unchanged" -> <<>>

\* main: the branch taken on the cached content ("if not cached_content");
\* cached_content["hash"] and cached_content['timestamp'] raise KeyError on a
\* dict without the key
MainBranch(cached, hash) ==
    IF cached = NoneData \/ EmptyDict(cached) THEN "first_run"
    ELSE IF ~Has(cached, "hash") THEN "raise"
    ELSE IF cached.hash # hash THEN "changed"
    ELSE IF ~Has(cached, "timestamp") THEN "raise"
    ELSE "unchanged"

\* main: the calls of each branch of the else block
MainPlan(branch) ==
    CASE branch = "first_run" -> <<Call("save_cached_content", "-")>>
      [] branch = "changed" ->
            <<Call("send_telegram", "alert"), Call("send_discord", "alert"),
              Call("save_cached_content", "-")>>
      [] branch = "unchanged" ->
            <<Call("send_telegram", "heartbeat"),
              Call("send_discord", "heartbeat"),
              Call("save_cached_content", "-")>>

\* main: the except block followed by the finally block
ExceptPath == <<Call("send_telegram", "error"), Call("cleanup", "-")>>

\* main after login_with_popup returned r or raised
AfterLogin(r) ==
    CASE r = "True" -> <<Call("extract_all_offerings", "-")>>
      [] r = "False" -> <<Call("compare", "-"), Call("cleanup", "-")>>
      [] r = "raise" -> ExceptPath

\* main after extract_all_offerings and the statements that follow it in the
\* try block (json dump, screenshot, save_state) returned or raised
AfterOfferings(r) ==
    IF r = "raise" THEN ExceptPath
    ELSE <<Call("compare", "-"), Call("cleanup", "-")>>

\* faulty variant of Unwind: main has no finally block
UnwindNoFinally(v, rest) == <<>>

\* where control goes when an exception leaves the running call: run_forever
\* catches it after check_for_changes is abandoned; main runs its finally block
Unwind(v, rest) ==
    IF v = "monitor" THEN <<>>
    ELSE IF \E i \in 1..Len(rest) : rest[i].op = "cleanup"
         THEN <<Call("cleanup", "-")>>
         ELSE <<>>

----------------------------------------------------------------------------
(* Initial states *)

\* notifications mappings: load_config merges any keys of the config file;
\* find_config_from_env builds at most the discord and telegram entries
Notifications(v) ==
    IF v = "monitor"
    THEN {c \in SUBSET Channels : Cardinality(c) <= MaxChannels}
    ELSE SUBSET {"discord", "telegram"}

\* contents an earlier cycle of the variant can have left in the cache
CachedTexts(v) ==
    IF v = "monitor" THEN Texts
    ELSE Texts \cup {EmptyText, LoginFailedText}

\* run_forever has not been entered
LoopIdle == [pc |-> "idle", last |-> "none"]

\* send_all_notifications has not been called on its own
NoMessage == <<>>

\* no call of the dispatcher has returned
NotCalled == [call |-> "none", value |-> Unset]

Init ==
    /\ now = 0
    /\ cycles = 0
    /\ variant \in {"monitor", "browser_automation"}
    /\ config \in [notifications : Notifications(variant),
                   notify_unchanged : Policies]
    /\ cache_file \in {AbsentFile}
           \cup {CacheData(variant, t, MD5(t), 0) : t \in CachedTexts(variant)}
    /\ todo = <<>>
    /\ html_content = Unset
    /\ login_success = Unset
    /\ current_text = Unset
    /\ current_hash = NoHash
    /\ cached_data = UnsetData
    /\ verdict = "none"
    /\ raised = FALSE
    /\ events = <<>>
    /\ cache_before = cache_file
    /\ loop = LoopIdle
    /\ message = NoMessage
    /\ handed = {}
    /\ returned = NotCalled
    /\ PureIdle

\* the dict d with key removed
Without(d, key) == [k \in DOMAIN d \ {key} |-> d[k]]

\* the dict d with one more key, which neither variant reads
WithExtra(d) == [k \in DOMAIN d \cup {"note"} |-> IF k = "note" THEN "x" ELSE d[k]]

\* keys save_cached_content writes
CacheKeys == {"text", "hash", "timestamp", "url"}

\* cache files left by anything but a completed save_cached_content of the
\* running version: unparseable content, the empty object, an entry lacking a
\* key, an entry with one key more
PersistedFiles(v) ==
    {CorruptFile, [kind |-> "json"]}
    \cup {Without(CacheData(v, t, MD5(t), 0), k) : t \in Texts, k \in CacheKeys}
    \cup {WithExtra(CacheData(v, t, MD5(t), 0)) : t \in Texts}

\* the monitors started on such a cache file
InitPersisted ==
    /\ now = 0
    /\ cycles = 0
    /\ variant \in {"monitor", "browser_automation"}
    /\ config \in [notifications : Notifications(variant),
                   notify_unchanged : Policies]
    /\ cache_file \in PersistedFiles(variant)
    /\ todo = <<>>
    /\ html_content = Unset
    /\ login_success = Unset
    /\ current_text = Unset
    /\ current_hash = NoHash
    /\ cached_data = UnsetData
    /\ verdict = "none"
    /\ raised = FALSE
    /\ events = <<>>
    /\ cache_before = cache_file
    /\ loop = LoopIdle
    /\ message = NoMessage
    /\ handed = {}
    /\ returned = NotCalled
    /\ PureIdle

----------------------------------------------------------------------------
(* Actions *)

Running(op) == todo # <<>> /\ Head(todo).op = op

\* a cycle begins: the locals of the handler are fresh
BeginCycle ==
    /\ todo = <<>>
    /\ cycles < MaxCycles
    /\ cycles' = cycles + 1
    /\ now' = now + 1
    /\ todo' = IF variant = "monitor"
               THEN <<Call("fetch_page_content", "-")>>
               ELSE <<Call("login_with_popup", "-")>>
    /\ html_content' = Unset
    /\ login_success' = Unset
    /\ current_text' = IF variant = "monitor" THEN Unset ELSE EmptyText
    /\ current_hash' = NoHash
    /\ cached_data' = UnsetData
    /\ verdict' = "none"
    /\ raised' = FALSE
    /\ events' = <<>>
    /\ cache_before' = cache_file
    /\ UNCHANGED <<variant, config, cache_file>>

\* run_forever starts check_for_changes / a new process runs main
StartCycle ==
    /\ BeginCycle
    /\ UNCHANGED <<loop, dispatchVars, pureVars>>

\* html_content = self.fetch_page_content(); if not html_content: return
FetchPageContent ==
    /\ Running("fetch_page_content")
    /\ \E r \in {None, EmptyText, "<html>"} :
          /\ html_content' = r
          /\ todo' = AfterFetch(r)
          /\ verdict' = IF AfterFetch(r) = <<>> THEN "fetch_failed" ELSE verdict
    /\ UNCHANGED <<variant, config, cache_file, now, cycles, login_success,
                   current_text, current_hash, cached_data, raised, events,
                   cache_before>>
    /\ UNCHANGED <<loop, dispatchVars, pureVars>>

\* current_text = self.extract_target_text(html_content);
\* if not current_text: return
ExtractTargetText ==
    /\ Running("extract_target_text")
    /\ \E r \in {None, EmptyText} \cup Texts :
          /\ current_text' = r
          /\ todo' = AfterExtract(r)
          /\ verdict' = IF AfterExtract(r) = <<>> THEN "not_found" ELSE verdict
    /\ UNCHANGED <<variant, config, cache_file, now, cycles, html_content,
                   login_success, current_hash, cached_data, raised, events,
                   cache_before>>
    /\ UNCHANGED <<loop, dispatchVars, pureVars>>

\* login_success = monitor.login_with_popup(...), inside main's try block
LoginWithPopup ==
    /\ Running("login_with_popup")
    /\ \E r \in {"True", "False", "raise"} :
          /\ login_success' = r
          /\ todo' = AfterLogin(r)
          /\ current_text' = IF r = "False" THEN LoginFailedText
                             ELSE current_text
          /\ verdict' = IF r = "raise" THEN "error" ELSE verdict
    /\ UNCHANGED <<variant, config, cache_file, now, cycles, html_content,
                   current_hash, cached_data, raised, events, cache_before>>
    /\ UNCHANGED <<loop, dispatchVars, pureVars>>

\* courses, combined_string = monitor.extract_all_offerings(...), then the
\* json dump, the screenshot and save_state, any of which may raise
ExtractAllOfferings ==
    /\ Running("extract_all_offerings")
    /\ \E r \in {"raise", EmptyText} \cup Texts, post \in {"ok", "raise"} :
          LET out == IF r = "raise" \/ post = "raise" THEN "raise" ELSE "ok" IN
          /\ current_text' = IF r = "raise" THEN current_text ELSE r
          /\ todo' = AfterOfferings(out)
          /\ verdict' = IF out = "raise" THEN "error" ELSE verdict
    /\ UNCHANGED <<variant, config, cache_file, now, cycles, html_content,
                   login_success, current_hash, cached_data, raised, events,
                   cache_before>>
    /\ UNCHANGED <<loop, dispatchVars, pureVars>>

\* current_hash = md5(...); the cache is read; the branch is chosen
Compare ==
    /\ Running("compare")
    /\ LET hash == CurrentHash(current_text)
           cached == GetCachedContent(cache_file)
           branch == IF cached = RaisedData THEN "raise"
                     ELSE IF variant = "monitor"
                     THEN CheckForChangesBranch(cached, hash)
                     ELSE MainBranch(cached, hash)
           plan == IF variant = "monitor"
                   THEN CheckForChangesPlan(branch)
                   ELSE MainPlan(branch)
       IN /\ current_hash' = hash
          /\ cached_data' = cached
          /\ verdict' = branch
          /\ events' = Append(events, ReadEvent)
          /\ IF branch = "raise"
             THEN /\ raised' = TRUE
                  /\ todo' = Unwind(variant, Tail(todo))
             ELSE /\ raised' = raised
                  /\ todo' = plan \o Tail(todo)
    /\ UNCHANGED <<variant, config, cache_file, now, cycles, html_content,
                   login_success, current_text, cache_before>>
    /\ UNCHANGED <<loop, dispatchVars, pureVars>>

\* send_all_notifications(subject, message)
SendAllNotifications ==
    /\ Running("send_all_notifications")
    /\ events' = Append(events, DispatchEvent(Head(todo).msg))
    /\ todo' = SendAllCalls(config.notifications, Head(todo).msg) \o Tail(todo)
    /\ UNCHANGED <<variant, config, cache_file, now, cycles, html_content,
                   login_success, current_text, current_hash, cached_data,
                   verdict, raised, cache_before>>
    /\ UNCHANGED <<loop, dispatchVars, pureVars>>

\* one send_* method: the transport of the configured key is tried once and
\* an exception it raises is caught and logged
Send(op) ==
    /\ Running(op)
    /\ LET key == Provider(op, config.notifications)
           msg == Head(todo).msg
       IN IF key = None
          THEN /\ todo' = Tail(todo)
               /\ UNCHANGED <<events, raised>>
          ELSE \E out \in Outcomes :
                  /\ events' = Append(events, AttemptEvent(key, msg, out))
                  /\ IF out = "raise" /\ ~Handled(op, out)
                     THEN /\ raised' = TRUE
                          /\ todo' = Unwind(variant, Tail(todo))
                     ELSE /\ raised' = raised
                          /\ todo' = Tail(todo)
    /\ UNCHANGED <<variant, config, cache_file, now, cycles, html_content,
                   login_success, current_text, current_hash, cached_data,
                   verdict, cache_before>>
    /\ UNCHANGED <<loop, dispatchVars, pureVars>>

SendTemporaryEmail == Send("send_temporary_email")
SendSms == Send("send_sms")
SendDiscord == Send("send_discord")
SendTelegram == Send("send_telegram")
SendSlack == Send("send_slack")
SendWebhook == Send("send_webhook")

\* save_cached_content(text, text_hash): the slot is overwritten
SaveCachedContent ==
    /\ Running("save_cached_content")
    /\ cache_file' = CacheData(variant, current_text, current_hash, now)
    /\ events' = Append(events, WriteEvent)
    /\ todo' = Tail(todo)
    /\ UNCHANGED <<variant, config, now, cycles, html_content, login_success,
                   current_text, current_hash, cached_data, verdict, raised,
                   cache_before>>
    /\ UNCHANGED <<loop, dispatchVars, pureVars>>

\* monitor.cleanup() in main's finally block
Cleanup ==
    /\ Running("cleanup")
    /\ events' = Append(events, CleanupEvent)
    /\ todo' = Tail(todo)
    /\ UNCHANGED <<variant, config, cache_file, now, cycles, html_content,
                   login_success, current_text, current_hash, cached_data,
                   verdict, raised, cache_before>>
    /\ UNCHANGED <<loop, dispatchVars, pureVars>>

Next ==
    \/ StartCycle
    \/ FetchPageContent
    \/ ExtractTargetText
    \/ LoginWithPopup
    \/ ExtractAllOfferings
    \/ Compare
    \/ SendAllNotifications
    \/ SendTemporaryEmail
    \/ SendSms
    \/ SendDiscord
    \/ SendTelegram
    \/ SendSlack
    \/ SendWebhook
    \/ SaveCachedContent
    \/ Cleanup

Spec == Init /\ [][Next]_vars

\* the running cycle has returned
CycleDone == cycles > 0 /\ todo = <<>>

SpecPersisted == InitPersisted /\ [][Next]_vars

----------------------------------------------------------------------------
(* The dispatcher called on its own *)

\* a NotificationManager built on a notifications mapping, about to be called
\* with a message; switched_off are the keys whose settings carry
\* "enabled": false, which no method reads
InitDispatch ==
    /\ now = 0
    /\ cycles = 0
    /\ variant = "monitor"
    /\ \E n \in Notifications("monitor") :
          \E off \in {{}, n} :
             config = [notifications |-> n, notify_unchanged |-> "silent",
                       switched_off |-> off]
    /\ cache_file = AbsentFile
    /\ todo = <<>>
    /\ html_content = Unset
    /\ login_success = Unset
    /\ current_text = Unset
    /\ current_hash = NoHash
    /\ cached_data = UnsetData
    /\ verdict = "none"
    /\ raised = FALSE
    /\ events = <<>>
    /\ cache_before = cache_file
    /\ loop = LoopIdle
    /\ message \in {Text(n) : n \in 0..MaxMsgLen}
    /\ handed = {}
    /\ returned = NotCalled
    /\ PureIdle

\* one send_* call reaching its transport with the text it is given
Delivery(op, text) ==
    [op |-> op, ch |-> Provider(op, config.notifications), msg |-> text]

\* notification_manager.send_all_notifications(subject, message)
DispatchMessage ==
    /\ returned = NotCalled
    /\ LET calls == SendAllCalls(config.notifications, "text")
           ops == {calls[i].op : i \in 1..Len(calls)}
       IN handed' = {Delivery(op, HandedMessage(op, message)) : op \in ops}
    /\ returned' = [call |-> "send_all_notifications",
                    value |-> ReturnValue("send_all_notifications")]
    /\ UNCHANGED <<cycleVars, loop, message, pureVars>>

\* notification_manager.send_discord(message) / send_telegram(message)
DirectSend ==
    /\ returned = NotCalled
    /\ \E op \in DirectOps :
          /\ IF Provider(op, config.notifications) = None
             THEN handed' = {}
             ELSE handed' = {Delivery(op, message)}
          /\ returned' = [call |-> op, value |-> ReturnValue(op)]
    /\ UNCHANGED <<cycleVars, loop, message, pureVars>>

NextDispatch ==
    \/ DispatchMessage
    \/ DirectSend

SpecDispatch == InitDispatch /\ [][NextDispatch]_vars

\* send_all_notifications has returned
Dispatched == returned.call = "send_all_notifications"

----------------------------------------------------------------------------
(* save_cached_content statement by statement, and a process that can die *)

\* open(self.cache_file, "w"): the file is created or cut to length zero
OpenCacheFile ==
    /\ Running("save_cached_content")
    /\ cache_file' = CorruptFile
    /\ todo' = <<Call("json_dump", "-")>> \o Tail(todo)
    /\ UNCHANGED <<variant, config, now, cycles, html_content, login_success,
                   current_text, current_hash, cached_data, verdict, raised,
                   events, cache_before>>
    /\ UNCHANGED <<loop, dispatchVars, pureVars>>

\* json.dump(cache_data, f) and the close of the with block
DumpCacheData ==
    /\ Running("json_dump")
    /\ cache_file' = CacheData(variant, current_text, current_hash, now)
    /\ events' = Append(events, WriteEvent)
    /\ todo' = Tail(todo)
    /\ UNCHANGED <<variant, config, now, cycles, html_content, login_success,
                   current_text, current_hash, cached_data, verdict, raised,
                   cache_before>>
    /\ UNCHANGED <<loop, dispatchVars, pureVars>>

\* the process dies between two statements of a cycle (kill, power loss)
Crash ==
    /\ todo # <<>>
    /\ todo' = <<>>
    /\ verdict' = "crashed"
    /\ UNCHANGED <<variant, config, cache_file, now, cycles, html_content,
                   login_success, current_text, current_hash, cached_data,
                   raised, events, cache_before>>
    /\ UNCHANGED <<loop, dispatchVars, pureVars>>

NextCrash ==
    \/ StartCycle
    \/ FetchPageContent
    \/ ExtractTargetText
    \/ LoginWithPopup
    \/ ExtractAllOfferings
    \/ Compare
    \/ SendAllNotifications
    \/ SendTemporaryEmail
    \/ SendSms
    \/ SendDiscord
    \/ SendTelegram
    \/ SendSlack
    \/ SendWebhook
    \/ OpenCacheFile
    \/ DumpCacheData
    \/ Cleanup
    \/ Crash

SpecCrash == Init /\ [][NextCrash]_vars

----------------------------------------------------------------------------
(* run_forever *)

\* run_forever is entered on a freshly built monitor
InitLoop ==
    /\ now = 0
    /\ cycles = 0
    /\ variant = "monitor"
    /\ config \in [notifications : {c \in Notifications(variant) :
                                       Cardinality(c) <= MaxLoopChannels},
                   notify_unchanged : Policies]
    /\ cache_file \in {AbsentFile}
           \cup {CacheData(variant, t, MD5(t), 0) : t \in CachedTexts(variant)}
    /\ todo = <<>>
    /\ html_content = Unset
    /\ login_success = Unset
    /\ current_text = Unset
    /\ current_hash = NoHash
    /\ cached_data = UnsetData
    /\ verdict = "none"
    /\ raised = FALSE
    /\ events = <<>>
    /\ cache_before = cache_file
    /\ loop = LoopIdle
    /\ message = NoMessage
    /\ handed = {}
    /\ returned = NotCalled
    /\ PureIdle

\* calls of check_for_changes with statements outside any try block, or
\* inside one that catches only requests' exceptions
RaisingOps ==
    {"fetch_page_content", "extract_target_text", "compare",
     "save_cached_content"}

\* faulty variant of AfterCycle: run_forever has no "except Exception" clause
AfterCycleNoExcept(exc) == IF exc THEN "escaped" ELSE "sleep"

\* run_forever after check_for_changes: time.sleep(sleep_seconds) when it
\* returned, the "except Exception" handler and its time.sleep(300) when it
\* raised
AfterCycle(exc) == IF exc THEN "fallback" ELSE "sleep"

\* run_forever on KeyboardInterrupt: "except KeyboardInterrupt: break" covers
\* the try block, that is the cycle and the interval sleep; the fallback sleep
\* stands in an except handler, which no clause of the same try covers
AfterInterrupt(pc) == IF pc = "fallback" THEN "escaped" ELSE "returned"

\* "while True: try: self.check_for_changes()"
LoopIteration ==
    /\ loop.pc \in {"idle", "sleep", "fallback"}
    /\ BeginCycle
    /\ loop' = [loop EXCEPT !.pc = "cycle"]
    /\ UNCHANGED <<dispatchVars, pureVars>>

\* an exception other than KeyboardInterrupt leaves the running call and
\* check_for_changes
CycleRaises ==
    /\ todo # <<>>
    /\ Head(todo).op \in RaisingOps
    /\ raised' = TRUE
    /\ verdict' = "error"
    /\ todo' = Unwind(variant, Tail(todo))
    /\ UNCHANGED <<variant, config, cache_file, now, cycles, html_content,
                   login_success, current_text, current_hash, cached_data,
                   events, cache_before>>
    /\ UNCHANGED <<loop, dispatchVars, pureVars>>

\* check_for_changes is over: run_forever goes to sleep
EndCycle ==
    /\ loop.pc = "cycle"
    /\ todo = <<>>
    /\ loop' = [pc |-> AfterCycle(raised),
                last |-> IF raised THEN "error" ELSE "ok"]
    /\ UNCHANGED <<cycleVars, dispatchVars, pureVars>>

\* Ctrl-C while run_forever is in a cycle, in the interval sleep or in the
\* fallback sleep
KeyboardInterrupt ==
    /\ loop.pc \in {"cycle", "sleep", "fallback"}
    /\ loop' = [pc |-> AfterInterrupt(loop.pc), last |-> "interrupt"]
    /\ todo' = <<>>
    /\ verdict' = IF loop.pc = "cycle" THEN "interrupted" ELSE verdict
    /\ UNCHANGED <<variant, config, cache_file, now, cycles, html_content,
                   login_success, current_text, current_hash, cached_data,
                   raised, events, cache_before>>
    /\ UNCHANGED <<dispatchVars, pureVars>>

\* the steps run_forever takes by itself
LoopStep ==
    \/ LoopIteration
    \/ FetchPageContent
    \/ ExtractTargetText
    \/ Compare
    \/ SendAllNotifications
    \/ SendTemporaryEmail
    \/ SendSms
    \/ SendDiscord
    \/ SendTelegram
    \/ SendSlack
    \/ SendWebhook
    \/ SaveCachedContent
    \/ CycleRaises
    \/ EndCycle

NextLoop ==
    \/ LoopStep
    \/ KeyboardInterrupt

\* the process keeps running: time.sleep returns and every call ends
SpecLoop == InitLoop /\ [][NextLoop]_vars /\ WF_vars(LoopStep)

----------------------------------------------------------------------------
(* extract_target_text *)

\* a text is the sequence of its characters; \s matches these two
IsSpace(c) == c \in {" ", "\n"}

\* str.lower(), character by character
LowerChar(c) ==
    CASE c = "A" -> "a"
      [] c = "B" -> "b"
      [] OTHER -> c

Lower(t) == [i \in 1..Len(t) |-> LowerChar(t[i])]

RECURSIVE LStrip(_)
LStrip(t) ==
    IF t = <<>> \/ ~IsSpace(Head(t)) THEN t ELSE LStrip(Tail(t))

RECURSIVE RStrip(_)
RStrip(t) ==
    IF t = <<>> \/ ~IsSpace(t[Len(t)]) THEN t
    ELSE RStrip(SubSeq(t, 1, Len(t) - 1))

\* str.strip()
Strip(t) == RStrip(LStrip(t))

\* sub in t
Contains(sub, t) ==
    \E i \in 0..Len(t) :
        i + Len(sub) <= Len(t) /\ SubSeq(t, i + 1, i + Len(sub)) = sub

\* re.sub(r"\s+", " ", t)
RECURSIVE Collapse(_)
Collapse(t) ==
    IF t = <<>> THEN <<>>
    ELSE IF IsSpace(Head(t)) THEN <<" ">> \o Collapse(LStrip(t))
    ELSE <<Head(t)>> \o Collapse(Tail(t))

\* clean_text = re.sub(r"\s+", " ", text).strip()
CleanText(t) == Strip(Collapse(t))

\* faulty variant of Matches: any() where the code says all()
MatchesAnyKeyword(t, cfg) ==
    /\ Len(t) > cfg.min_text_length
    /\ \E i \in 1..Len(cfg.target_text_keywords) :
          Contains(Lower(cfg.target_text_keywords[i]), Lower(t))

\* len(text) > min_text_length and all(keyword.lower() in text.lower() ...)
Matches(t, cfg) ==
    /\ Len(t) > cfg.min_text_length
    /\ \A i \in 1..Len(cfg.target_text_keywords) :
          Contains(Lower(cfg.target_text_keywords[i]), Lower(t))

\* the NavigableStrings of the page in document order: soup.find_all(text=True)
RECURSIVE TextNodes(_)
TextNodes(doc) ==
    IF doc = <<>> THEN <<>> ELSE Head(doc).strings \o TextNodes(Tail(doc))

\* elem.get_text(strip=True): the stripped strings of the element, joined
RECURSIVE JoinStripped(_)
JoinStripped(strings) ==
    IF strings = <<>> THEN <<>>
    ELSE Strip(Head(strings)) \o JoinStripped(Tail(strings))

GetText(elem) == JoinStripped(elem.strings)

\* tags of the second pass, in the order of its outer loop
FallbackTags == <<"p", "div", "span", "article">>

Min(S) == CHOOSE x \in S : \A y \in S : x <= y

Found(t) == [found |-> TRUE, text |-> t, ran |-> TRUE]

\* return None
NotFound == [found |-> FALSE, text |-> <<>>, ran |-> TRUE]

\* second pass from the k-th tag on: tag by tag, and within one tag the
\* elements of soup.find_all(tag) in document order
RECURSIVE FallbackFrom(_, _, _)
FallbackFrom(doc, cfg, k) ==
    IF k > Len(FallbackTags) THEN NotFound
    ELSE LET hits == {i \in 1..Len(doc) :
                        /\ doc[i].tag = FallbackTags[k]
                        /\ Matches(GetText(doc[i]), cfg)}
         IN IF hits # {} THEN Found(CleanText(GetText(doc[Min(hits)])))
            ELSE FallbackFrom(doc, cfg, k + 1)

\* extract_target_text(html_content)
TargetText(doc, cfg) ==
    LET nodes == TextNodes(doc)
        hits == {i \in 1..Len(nodes) : Matches(Strip(nodes[i]), cfg)}
    IN IF hits # {} THEN Found(CleanText(Strip(nodes[Min(hits)])))
       ELSE FallbackFrom(doc, cfg, 1)

\* texts of single nodes: two that lack a keyword, one that has both, one that
\* has both inside padding and a run of whitespace
BareTexts == {<<"a">>, <<"b">>, <<"a", "b">>}
PaddedText == <<" ", "A", " ", "\n", "b", " ">>

\* contents of an element: one text node, or two split by an inline child
Contents ==
    {<<t>> : t \in BareTexts \cup {PaddedText}}
    \cup {<<t, u>> : t \in BareTexts, u \in BareTexts}

Elements == [tag : {"p", "div", "h1"}, strings : Contents]

Documents ==
    UNION {[1..n -> Elements] : n \in 0..MaxElems}

\* target_text_keywords and min_text_length of the configuration
ExtractConfigs ==
    [target_text_keywords : {<<<<"a">>>>, <<<<"a">>, <<"B">>>>},
     min_text_length : {0, 3}]

InitExtract ==
    /\ now = 0
    /\ cycles = 0
    /\ variant = "monitor"
    /\ config \in ExtractConfigs
    /\ cache_file = AbsentFile
    /\ todo = <<>>
    /\ html_content = Unset
    /\ login_success = Unset
    /\ current_text = Unset
    /\ current_hash = NoHash
    /\ cached_data = UnsetData
    /\ verdict = "none"
    /\ raised = FALSE
    /\ events = <<>>
    /\ cache_before = cache_file
    /\ loop = LoopIdle
    /\ message = NoMessage
    /\ handed = {}
    /\ returned = NotCalled
    /\ document \in Documents
    /\ extracted = NotRun
    /\ HeadingsIdle
    /\ scroller = ScrollIdle
    /\ BrowserIdle
    /\ RunsIdle

\* current_text = self.extract_target_text(html_content)
RunExtractTargetText ==
    /\ ~extracted.ran
    /\ extracted' = TargetText(document, config)
    /\ UNCHANGED <<cycleVars, loop, dispatchVars, document, headingVars,
                   scroller, browserVars, runVars>>

NextExtract == RunExtractTargetText

SpecExtract == InitExtract /\ [][NextExtract]_vars

----------------------------------------------------------------------------
(* PlaywrightWebMonitor.extract_course_headings.  The text of an element is
   the sequence of its words, blanks and signs; its length in characters is
   the sum of their lengths.  The elements of the page are the text-bearing
   elements of the rendered page in document order; the price, location
   and dates keys, which are read from the card around an element, are left
   out of the records. *)

\* len(text) > 15
MinTextLen == 15
\* len(text) < 300
MaxTextLen == 300
\* len(found_elements) > 5
StopThreshold == 5
\* len(heading.strip()) > 10
MinHeadingLen == 10

\* len(text)
RECURSIVE TextLen(_)
TextLen(t) == IF t = <<>> THEN 0 ELSE Len(Head(t)) + TextLen(Tail(t))

\* str.upper() and str.lower() of one word
UpperWord(w) ==
    CASE w = "Natation" -> "NATATION"
      [] w = "disponibles" -> "DISPONIBLES"
      [] w = "Disponibles" -> "DISPONIBLES"
      [] OTHER -> w

LowerWord(w) ==
    CASE w = "Natation" -> "natation"
      [] w = "NATATION" -> "natation"
      [] w = "Disponibles" -> "disponibles"
      [] OTHER -> w

Upper(t) == [i \in 1..Len(t) |-> UpperWord(t[i])]

\* text.startswith(prefix), text.endswith(suffix)
StartsWith(t, prefix) == t # <<>> /\ t[1] = prefix
EndsWith(t, suffix) == t # <<>> /\ t[Len(t)] = suffix

\* text.split(sep)
RECURSIVE Split(_, _)
Split(t, sep) ==
    IF sep \notin SeqRange(t) THEN <<t>>
    ELSE LET i == Min({j \in 1..Len(t) : t[j] = sep})
         IN <<SubSeq(t, 1, i - 1)>> \o Split(SubSeq(t, i + 1, Len(t)), sep)

\* [part.strip() for part in heading.split("|")]
Parts(heading) ==
    LET raw == Split(heading, "|")
    IN [i \in 1..Len(raw) |-> Strip(raw[i])]

\* the keyword list of the course-like filter
Keywords ==
    {"NATATION", "TRIATHLON", "LICENCE", "ECOLE", "AQUA", "FITNESS", "COURS",
     "ENTRAINEMENT"}

\* selectors_to_try; every selector but the last three is scoped to the
\* descendants of div[class*='MuiPaper-root']
SelectorsToTry ==
    <<[css |-> "div[class*='MuiPaper-root'] p:has-text('|')",
       in_card |-> TRUE, tag |-> "p", has_text |-> <<"|">>],
      [css |-> "div[class*='MuiPaper-root'] p",
       in_card |-> TRUE, tag |-> "p", has_text |-> <<>>],
      [css |-> "div[class*='MuiPaper-root'] div[class*='MuiTypography']:has-text('|')",
       in_card |-> TRUE, tag |-> "div.MuiTypography", has_text |-> <<"|">>],
      [css |-> "div[class*='MuiPaper-root'] *:has-text('|')",
       in_card |-> TRUE, tag |-> "*", has_text |-> <<"|">>],
      [css |-> "div:has-text('NATATION')",
       in_card |-> FALSE, tag |-> "div", has_text |-> <<"NATATION">>],
      [css |-> "div:has-text('TRIATHLON')",
       in_card |-> FALSE, tag |-> "div", has_text |-> <<"TRIATHLON">>],
      [css |-> "*:has-text(' | ')",
       in_card |-> FALSE, tag |-> "*", has_text |-> <<" ", "|", " ">>]>>

\* the tag part of a selector against an element
TagMatches(tag, elem) ==
    \/ tag = "*"
    \/ tag = elem.tag
    \/ tag = "div" /\ elem.tag = "div.MuiTypography"

\* :has-text() matches without regard to case
HasText(needle, t) == Contains(Upper(needle), Upper(t))

SelectorMatches(sel, elem) ==
    /\ sel.in_card => elem.in_card
    /\ TagMatches(sel.tag, elem)
    /\ HasText(sel.has_text, elem.text)

\* the elements of a set of positions, in document order
RECURSIVE InOrder(_)
InOrder(S) ==
    IF S = {} THEN <<>> ELSE <<Min(S)>> \o InOrder(S \ {Min(S)})

\* self.page.query_selector_all(selector): positions in document order
QuerySelectorAll(pg, sel) ==
    InOrder({i \in 1..Len(pg) : SelectorMatches(sel, pg[i])})

\* the filter for course-like content
CourseLike(text) ==
    /\ text # <<>>
    /\ TextLen(text) > MinTextLen
    /\ TextLen(text) < MaxTextLen
    /\ "|" \in SeqRange(text)
    /\ \E i \in 1..Len(text) : UpperWord(text[i]) \in Keywords

\* faulty variant of NotBoilerplate: nothing is skipped
KeepsBoilerplate(text, courses) == TRUE

\* the filter against duplicates, price-only and availability text
NotBoilerplate(text, courses) ==
    /\ text \notin {courses[i].heading : i \in 1..Len(courses)}
    /\ ~StartsWith(text, "€")
    /\ \A i \in 1..Len(text) : LowerWord(text[i]) # "disponibles"

\* the entries one selector appends to found_elements; courses is still
\* empty while the selectors are tried
RECURSIVE Collect(_, _, _)
Collect(pg, sel, elements) ==
    IF elements = <<>> THEN <<>>
    ELSE LET text == Strip(pg[Head(elements)].text)
             rest == Collect(pg, sel, Tail(elements))
         IN IF CourseLike(text) /\ NotBoilerplate(text, <<>>)
            THEN <<[selector |-> sel.css, elem |-> Head(elements),
                    text |-> text]>> \o rest
            ELSE rest

\* faulty variant of StopsEarly: the loop never breaks
NeverStops(good_results_found, found) == FALSE

\* if good_results_found and len(found_elements) > 5: break
StopsEarly(good_results_found, found) ==
    good_results_found /\ Len(found) > StopThreshold

\* dict with one key set
SetItem(d, key, value) ==
    [k \in DOMAIN d \cup {key} |-> IF k = key THEN value ELSE d[k]]

\* the fields of a heading put into the course; a field the heading does not
\* have is left as it was
ParseFields(course, heading) ==
    LET parts == Parts(heading)
        c2 == IF Len(parts) >= 2
              THEN SetItem(SetItem(course, "activity", parts[1]),
                           "code", parts[2])
              ELSE course
        c3 == IF Len(parts) >= 3
              THEN SetItem(c2, "description", parts[3]) ELSE c2
    IN IF Len(parts) >= 4 THEN SetItem(c3, "schedule", parts[4]) ELSE c3

\* course_info of one found element
CourseInfo(entry) ==
    ParseFields([heading |-> entry.text, selector_used |-> entry.selector,
                 raw_text |-> entry.text],
                entry.text)

\* courses after the loop over found_elements
Courses(found) == [i \in 1..Len(found) |-> CourseInfo(found[i])]

\* price text and the trailing button label taken off a heading
CleanHeading(heading) ==
    LET h1 == IF "À partir de" \in SeqRange(heading)
              THEN Strip(Split(heading, "À partir de")[1])
              ELSE heading
        parts == Split(h1, "€")
        h2 == IF /\ "€" \in SeqRange(h1)
                 /\ ~StartsWith(h1, "€")
                 /\ Len(parts) > 1
                 /\ "|" \in SeqRange(parts[1])
              THEN Strip(parts[1])
              ELSE h1
    IN IF EndsWith(h2, "S'inscrire")
       THEN Strip(SubSeq(h2, 1, Len(h2) - 1))
       ELSE h2

\* the course with its heading cleaned and parsed again
CleanCourse(course) ==
    LET heading == CleanHeading(course.heading)
    IN ParseFields(SetItem(SetItem(course, "heading", heading),
                           "raw_text", heading),
                   heading)

\* unique_id = f"{activity}-{code}-{description}"
UniqueId(course) ==
    Get(course, "activity", <<>>) \o <<"-">> \o Get(course, "code", <<>>)
        \o <<"-">> \o Get(course, "description", <<>>)

\* the loop over courses that fills unique_courses and seen_courses
RECURSIVE Dedupe(_, _, _)
Dedupe(courses, unique, seen) ==
    IF courses = <<>> THEN unique
    ELSE LET course == CleanCourse(Head(courses))
             unique_id == UniqueId(course)
         IN IF /\ unique_id \notin seen
               /\ TextLen(Strip(course.heading)) > MinHeadingLen
            THEN Dedupe(Tail(courses), Append(unique, course),
                        seen \cup {unique_id})
            ELSE Dedupe(Tail(courses), unique, seen)

\* a heading written with " | " between its fields
RECURSIVE Heading(_)
Heading(fields) ==
    IF Len(fields) = 1 THEN fields[1]
    ELSE fields[1] \o <<" ", "|", " ">> \o Heading(Tail(fields))

PriceAndButton == <<"€", "120", " ", "S'inscrire">>

\* the heading of the worked example and its four fields
ExampleFields ==
    <<<<"NATATION">>, <<"N123">>, <<"Initiation">>, <<"Lundi", " ", "18h">>>>
ExampleHeading == Heading(ExampleFields \o <<PriceAndButton>>)

\* the same course twice, the second time with a schedule
PlainHeading == Heading(<<<<"Natation">>, <<"N1">>, <<"Ecole">>>>)
RepeatedHeading ==
    Heading(<<<<"Natation">>, <<"N1">>, <<"Ecole">>, <<"Mardi">>>>)

\* two courses whose fields hold a hyphen
HyphenActivity ==
    Heading(<<<<"AQUA", "-", "GYM">>, <<"N1">>, <<"Ecole">>>>)
HyphenCode ==
    Heading(<<<<"AQUA">>, <<"GYM", "-", "N1">>, <<"Ecole">>>>)

\* a price in the middle of the heading, a price right after the last bar
PriceInside ==
    Heading(<<<<"NATATION">>, <<"N1", " ", "€", "5">>, <<"Lundi">>>>)
PriceAfterBar == Heading(<<<<"NATATION">>, <<"N1">>, PriceAndButton>>)

\* a price announced after the last field
PriceFrom ==
    Heading(<<<<"NATATION">>, <<"N2">>,
              <<"Ecole", " ", "À partir de", " ", "120", "€">>>>)

\* the same activity and code, once with no third field and once with an
\* empty one
TwoFields == Heading(<<<<"ENTRAINEMENT">>, <<"N1">>>>)
EmptyThird == Heading(<<<<"ENTRAINEMENT">>, <<"N1">>, <<>>>>)

\* texts the filters and the length test are there to drop
PriceOnly == Heading(<<<<"€", "120">>, <<"NATATION">>, <<"N1">>>>)
Availability ==
    Heading(<<<<"NATATION">>, <<"3", " ", "places", " ", "Disponibles">>>>)
NoKeyword == Heading(<<<<"Bonjour">>, <<"tout", " ", "le", " ", "monde">>>>)
TooShort == Heading(<<<<"NATATION">>, <<"N1">>>>)
ShortOnceCleaned == Heading(<<<<"AQUA">>, <<"X">>, PriceAndButton>>)

CardTexts ==
    {ExampleHeading, PlainHeading, RepeatedHeading, HyphenActivity,
     HyphenCode, PriceInside, PriceAfterBar, PriceFrom, TwoFields,
     EmptyThird, PriceOnly,
     Availability, NoKeyword, TooShort, ShortOnceCleaned}

\* paragraphs and typography blocks of the cards, and one paragraph that is
\* not in a card
PageElements ==
    [tag : {"p", "div.MuiTypography"}, in_card : {TRUE}, text : CardTexts]
    \cup {[tag |-> "p", in_card |-> FALSE, text |-> PlainHeading]}

Pages == UNION {[1..n -> PageElements] : n \in 0..MaxCards}

InitHeadings ==
    /\ now = 0
    /\ cycles = 0
    /\ variant = "browser_automation"
    /\ config = [notifications |-> {}, notify_unchanged |-> "silent"]
    /\ cache_file = AbsentFile
    /\ todo = <<>>
    /\ html_content = Unset
    /\ login_success = Unset
    /\ current_text = Unset
    /\ current_hash = NoHash
    /\ cached_data = UnsetData
    /\ verdict = "none"
    /\ raised = FALSE
    /\ events = <<>>
    /\ cache_before = cache_file
    /\ loop = LoopIdle
    /\ message = NoMessage
    /\ handed = {}
    /\ returned = NotCalled
    /\ document = <<>>
    /\ extracted = NotRun
    /\ page \in Pages
    /\ scan = ScanStart
    /\ found_elements = <<>>
    /\ unique_courses = NotReturned
    /\ scroller = ScrollIdle
    /\ BrowserIdle
    /\ RunsIdle

\* one iteration of the loop over selectors_to_try that does not break
TrySelector ==
    /\ ~unique_courses.done
    /\ scan.pos <= Len(SelectorsToTry)
    /\ ~StopsEarly(scan.good, found_elements)
    /\ LET selector == SelectorsToTry[scan.pos]
           new == Collect(page, selector, QuerySelectorAll(page, selector))
       IN /\ found_elements' = found_elements \o new
          /\ scan' = [pos |-> scan.pos + 1,
                      good |-> scan.good \/ new # <<>>,
                      queried |-> Append(scan.queried, scan.pos)]
    /\ UNCHANGED <<cycleVars, loop, dispatchVars, document, extracted, page,
                   unique_courses, scroller, browserVars, runVars>>

\* the loop is left, by its end or by break; the found elements are
\* processed, cleaned and deduplicated
ReturnUniqueCourses ==
    /\ ~unique_courses.done
    /\ \/ scan.pos > Len(SelectorsToTry)
       \/ StopsEarly(scan.good, found_elements)
    /\ unique_courses' =
           [done |-> TRUE,
            courses |-> Dedupe(Courses(found_elements), <<>>, {})]
    /\ UNCHANGED <<cycleVars, loop, dispatchVars, document, extracted, page,
                   scan, found_elements, scroller, browserVars, runVars>>

NextHeadings == TrySelector \/ ReturnUniqueCourses

SpecHeadings == InitHeadings /\ [][NextHeadings]_vars

----------------------------------------------------------------------------
(* PlaywrightWebMonitor.scroll_to_load_all_content.  heights is the list of
   the values document.body.scrollHeight returned so far: the initial one,
   then one per scroll. *)

\* the arguments and the page: max_scrolls and whatever heights it reports
ScrollArgs == 0..MaxScrolls
Heights == 1..MaxHeight

\* faulty variant of ReachedBottom: the height is never taken as unchanged
NeverAtBottom(new_height, last_height) == FALSE

\* if new_height == last_height: break
ReachedBottom(new_height, last_height) == new_height = last_height

InitScroll ==
    /\ now = 0
    /\ cycles = 0
    /\ variant = "browser_automation"
    /\ config = [notifications |-> {}, notify_unchanged |-> "silent"]
    /\ cache_file = AbsentFile
    /\ todo = <<>>
    /\ html_content = Unset
    /\ login_success = Unset
    /\ current_text = Unset
    /\ current_hash = NoHash
    /\ cached_data = UnsetData
    /\ verdict = "none"
    /\ raised = FALSE
    /\ events = <<>>
    /\ cache_before = cache_file
    /\ loop = LoopIdle
    /\ message = NoMessage
    /\ handed = {}
    /\ returned = NotCalled
    /\ document = <<>>
    /\ extracted = NotRun
    /\ HeadingsIdle
    /\ \E m \in ScrollArgs : scroller = [ScrollIdle EXCEPT !.max_scrolls = m]
    /\ BrowserIdle
    /\ RunsIdle

\* last_height = self.page.evaluate(...); scroll_count = 0
GetInitialHeight ==
    /\ scroller.pc = "idle"
    /\ \E h \in Heights :
          scroller' = [scroller EXCEPT !.pc = "loop", !.last_height = h,
                                       !.scroll_count = 0, !.heights = <<h>>]
    /\ UNCHANGED <<cycleVars, loop, dispatchVars, document, extracted,
                   headingVars, browserVars, runVars>>

\* one iteration of for i in range(max_scrolls): i is the number of
\* iterations done, which is scroll_count
ScrollOnce ==
    /\ scroller.pc = "loop"
    /\ scroller.scroll_count < scroller.max_scrolls
    /\ \E new_height \in Heights :
          scroller' =
              [scroller EXCEPT
                  !.scroll_count = @ + 1,
                  !.heights = Append(@, new_height),
                  !.pc = IF ReachedBottom(new_height, scroller.last_height)
                         THEN "after_loop" ELSE "loop",
                  !.last_height = new_height]
    /\ UNCHANGED <<cycleVars, loop, dispatchVars, document, extracted,
                   headingVars, browserVars, runVars>>

\* the loop is over, by break or by the end of the range: scroll back to
\* the top and return scroll_count
ReturnScrollCount ==
    /\ \/ scroller.pc = "after_loop"
       \/ scroller.pc = "loop"
          /\ scroller.scroll_count >= scroller.max_scrolls
    /\ scroller' = [scroller EXCEPT !.pc = "returned",
                                    !.value = scroller.scroll_count]
    /\ UNCHANGED <<cycleVars, loop, dispatchVars, document, extracted,
                   headingVars, browserVars, runVars>>

NextScroll == GetInitialHeight \/ ScrollOnce \/ ReturnScrollCount

SpecScroll == InitScroll /\ [][NextScroll]_vars /\ WF_vars(NextScroll)

----------------------------------------------------------------------------
(* PlaywrightWebMonitor.login_with_popup, with its default selectors.  acts
   is the list of the clicks, the fills and the status check the method
   called, each with the step it belongs to and whether it returned (ok) or
   raised; within a step every entry is a call on another position of the
   step's selector list. *)

connect_selectors ==
    <<"button:has-text('SE CONNECTER')", "button:has-text('SE CONNECTER')",
      "a:has-text('SE CONNECTER')", "[class*='login']", "[class*='connect']",
      ".btn-login", "#login-button">>

email_selectors ==
    <<"input[placeholder*='Adresse Email'], input[type='email'], #email",
      "input[placeholder*='email' i]", "input[placeholder*='adresse' i]",
      "input[type='email']", "input[name='email']", "input[name='username']",
      "#email", ".email-input">>

password_selectors ==
    <<"input[placeholder*='Mot de passe'], input[type='password'], #password",
      "input[placeholder*='mot de passe' i]",
      "input[placeholder*='password' i]", "input[type='password']",
      "input[name='password']", "#password", ".password-input">>

submit_selectors ==
    <<"button:has-text('SUIVANT'), button[type='submit']",
      "button:has-text('SUIVANT')", "button:has-text('Connexion')",
      "button:has-text('Login')", "button:has-text('Se connecter')",
      "button[type='submit']", ".submit-button", ".btn-submit">>

\* the four steps that act on the page, in the order of the code
LoginSteps ==
    <<[name |-> "connect", op |-> "click", selectors |-> connect_selectors],
      [name |-> "email", op |-> "fill", selectors |-> email_selectors],
      [name |-> "password", op |-> "fill", selectors |-> password_selectors],
      [name |-> "submit", op |-> "click", selectors |-> submit_selectors]>>

\* the status check comes fifth
CheckStep == Len(LoginSteps) + 1

Act(step, ok) == [step |-> step, ok |-> ok]

\* faulty variant of AfterSelectors: the flag of the step is not tested
AfterSelectorsNoReturn(step) ==
    [pc |-> IF step < Len(LoginSteps) THEN "step" ELSE "wait",
     step |-> IF step < Len(LoginSteps) THEN step + 1 ELSE step]

\* the selectors of a step ran out without a click or fill:
\* if not button_clicked: return False (and the like for the other steps)
AfterSelectors(step) == [pc |-> "returned", step |-> step]

\* after the click or fill of a step returned: the popup is waited for after
\* the connect click, the login after the submit click
AfterAct(step) ==
    IF step \in {1, Len(LoginSteps)} THEN [pc |-> "wait", step |-> step]
    ELSE [pc |-> "step", step |-> step + 1]

\* login_success after the status check: an indicator is visible, or the
\* connect button is not visible, or asking for it raised
LoginSuccess(indicator_visible, button) ==
    indicator_visible \/ button \in {"hidden", "raises"}

\* what __init__ acquires, in order: sync_playwright().start(),
\* chromium.launch(), browser.new_context(), context.new_page()
Acquisitions == <<"playwright", "browser", "context", "page">>

\* position of an entry in a list without repeats
IndexOf(seq, x) == CHOOSE i \in 1..Len(seq) : seq[i] = x

\* the resources after __init__: all acquired and main goes on into its try,
\* or those acquired before the call that raised, and main is left by the
\* exception with no monitor to clean up
Constructed(fails_at) ==
    LET n == IF fails_at = "none" THEN Len(Acquisitions) + 1
             ELSE IndexOf(Acquisitions, fails_at)
        Held(k) == IF k < n THEN "open" ELSE "none"
    IN [pc |-> IF fails_at = "none" THEN "try" ELSE "exit",
        playwright |-> Held(1), browser |-> Held(2), context |-> Held(3)]

\* what cleanup releases, in order: context.close(), browser.close(),
\* playwright.stop()
Releases == <<"context", "browser", "playwright">>

\* the resources after cleanup: each one held is closed in turn, up to the
\* first close that raises; what had to be closed after it stays open
CleanedUp(res, fails_at) ==
    LET n == IF fails_at = "none" THEN Len(Releases) + 1
             ELSE IndexOf(Releases, fails_at)
        After(name) ==
            IF res[name] # "open" THEN res[name]
            ELSE IF IndexOf(Releases, name) < n THEN "closed"
            ELSE IF IndexOf(Releases, name) = n THEN "broken"
            ELSE "open"
    IN [pc |-> "exit", playwright |-> After("playwright"),
        browser |-> After("browser"), context |-> After("context")]

InitLogin ==
    /\ now = 0
    /\ cycles = 0
    /\ variant = "browser_automation"
    /\ config = [notifications |-> {}, notify_unchanged |-> "silent"]
    /\ cache_file = AbsentFile
    /\ todo = <<>>
    /\ html_content = Unset
    /\ login_success = Unset
    /\ current_text = Unset
    /\ current_hash = NoHash
    /\ cached_data = UnsetData
    /\ verdict = "none"
    /\ raised = FALSE
    /\ events = <<>>
    /\ cache_before = cache_file
    /\ loop = LoopIdle
    /\ message = NoMessage
    /\ handed = {}
    /\ returned = NotCalled
    /\ document = <<>>
    /\ extracted = NotRun
    /\ HeadingsIdle
    /\ scroller = ScrollIdle
    /\ popup = PopupIdle
    /\ resources = [NoResources EXCEPT !.pc = "main"]
    /\ RunsIdle

\* monitor = PlaywrightWebMonitor(headless=True), first statement of main
\* and outside its try: the four acquisitions in order, up to the first that
\* raises
Construct ==
    /\ resources.pc = "main"
    /\ \E fails_at \in {"none"} \cup SeqRange(Acquisitions) :
          resources' = Constructed(fails_at)
    /\ UNCHANGED <<cycleVars, loop, dispatchVars, document, extracted,
                   headingVars, scroller, popup, runVars>>

\* finally: monitor.cleanup(), once the body of the try is over; of the body
\* only the login is kept
CleanupResources ==
    /\ resources.pc = "try"
    /\ popup.pc = "returned"
    /\ \E fails_at \in {"none"} \cup SeqRange(Releases) :
          resources' = CleanedUp(resources, fails_at)
    /\ UNCHANGED <<cycleVars, loop, dispatchVars, document, extracted,
                   headingVars, scroller, popup, runVars>>

\* self.page.goto(base_url); self.page.wait_for_load_state("networkidle")
Goto ==
    /\ resources.pc = "try"
    /\ popup.pc = "idle"
    /\ \E ok \in BOOLEAN :
          popup' = IF ok
                   THEN [popup EXCEPT !.pc = "step", !.step = 1, !.sel = 1]
                   ELSE [popup EXCEPT !.pc = "handler"]
    /\ UNCHANGED <<cycleVars, loop, dispatchVars, document, extracted,
                   headingVars, scroller, resources,
                   runVars>>

\* one selector of the step: is_visible says no or raises and the loop goes
\* on; or it says yes and the click or fill returns, which ends the loop; or
\* it says yes and the click or fill raises, and the loop goes on
TryLoginSelector ==
    /\ popup.pc = "step"
    /\ popup.sel <= Len(LoginSteps[popup.step].selectors)
    /\ \/ popup' = [popup EXCEPT !.sel = @ + 1]
       \/ popup' = [popup EXCEPT
                       !.acts = Append(@, Act(popup.step, TRUE)),
                       !.pc = AfterAct(popup.step).pc,
                       !.step = AfterAct(popup.step).step,
                       !.sel = 1]
       \/ /\ popup.failures < MaxLoginFailures
          /\ popup' = [popup EXCEPT
                          !.acts = Append(@, Act(popup.step, FALSE)),
                          !.failures = @ + 1,
                          !.sel = @ + 1]
    /\ UNCHANGED <<cycleVars, loop, dispatchVars, document, extracted,
                   headingVars, scroller, resources,
                   runVars>>

\* no selector is left in the step
SelectorsExhausted ==
    /\ popup.pc = "step"
    /\ popup.sel > Len(LoginSteps[popup.step].selectors)
    /\ popup' = [popup EXCEPT
                    !.pc = AfterSelectors(popup.step).pc,
                    !.step = AfterSelectors(popup.step).step,
                    !.sel = 1,
                    !.value = IF AfterSelectors(popup.step).pc = "returned"
                              THEN "False" ELSE @]
    /\ UNCHANGED <<cycleVars, loop, dispatchVars, document, extracted,
                   headingVars, scroller, resources,
                   runVars>>

\* self.page.wait_for_timeout(...) after the connect click and after the
\* submit click; it returns or raises into the outer handler
WaitForTimeout ==
    /\ popup.pc = "wait"
    /\ \E ok \in BOOLEAN :
          popup' =
              IF ~ok THEN [popup EXCEPT !.pc = "handler"]
              ELSE IF popup.step < Len(LoginSteps)
              THEN [popup EXCEPT !.pc = "step", !.step = @ + 1, !.sel = 1]
              ELSE [popup EXCEPT !.pc = "check"]
    /\ UNCHANGED <<cycleVars, loop, dispatchVars, document, extracted,
                   headingVars, scroller, resources,
                   runVars>>

\* the check for logged-in indicators and for the connect button; every
\* call in it is guarded
CheckLoginStatus ==
    /\ popup.pc = "check"
    /\ \E indicator_visible \in BOOLEAN,
          button \in {"visible", "hidden", "raises"} :
          popup' = [popup EXCEPT
                       !.pc = "screenshot",
                       !.acts = Append(@, Act(CheckStep, TRUE)),
                       !.login_success =
                           LoginSuccess(indicator_visible, button)]
    /\ UNCHANGED <<cycleVars, loop, dispatchVars, document, extracted,
                   headingVars, scroller, resources,
                   runVars>>

\* self.take_screenshot("after_login.png") / ("login_attempt.png"), then
\* return True / False; the screenshot is inside the outer try
TakeScreenshot ==
    /\ popup.pc = "screenshot"
    /\ \E ok \in BOOLEAN :
          popup' =
              IF ok
              THEN [popup EXCEPT
                       !.pc = "returned",
                       !.value = IF popup.login_success THEN "True"
                                 ELSE "False"]
              ELSE [popup EXCEPT !.pc = "handler"]
    /\ UNCHANGED <<cycleVars, loop, dispatchVars, document, extracted,
                   headingVars, scroller, resources,
                   runVars>>

\* except Exception: self.take_screenshot("login_error.png"); return False.
\* The screenshot of the handler is guarded by nothing
HandleLoginError ==
    /\ popup.pc = "handler"
    /\ \E ok \in BOOLEAN :
          popup' = [popup EXCEPT
                       !.pc = "returned",
                       !.value = IF ok THEN "False" ELSE "raised"]
    /\ UNCHANGED <<cycleVars, loop, dispatchVars, document, extracted,
                   headingVars, scroller, resources,
                   runVars>>

NextLogin ==
    \/ Construct
    \/ CleanupResources
    \/ Goto
    \/ TryLoginSelector
    \/ SelectorsExhausted
    \/ WaitForTimeout
    \/ CheckLoginStatus
    \/ TakeScreenshot
    \/ HandleLoginError

SpecLogin == InitLogin /\ [][NextLogin]_vars

----------------------------------------------------------------------------
(* The fingerprinted content of the browser variant: extract_all_offerings
   builds combined_string from the records, main takes its MD5 and compares
   it with the hash of the run before.  A heading is here the sequence of its
   characters. *)

\* course['heading'][:100]
HeadingCut == 100

RECURSIVE Repeat(_, _)
Repeat(c, n) == IF n = 0 THEN <<>> ELSE <<c>> \o Repeat(c, n - 1)

\* f"{i}" for the positions the model reaches
Decimal(i) == <<"1", "2", "3", "4", "5", "6", "7", "8", "9">>[i]

\* the two emoji of the price and day parts, one character each
MoneyBag == "<money bag>"
Calendar == "<calendar>"

\* what one record adds to combined_string
CombinedLine(i, course) ==
    LET heading == course.heading IN
    <<" ", " ", Decimal(i), ".", " ">>
        \o SubSeq(heading, 1,
                  IF Len(heading) < HeadingCut THEN Len(heading)
                  ELSE HeadingCut)
        \o (IF Len(heading) > HeadingCut THEN <<".", ".", ".">> ELSE <<>>)
        \o (IF Has(course, "price")
            THEN <<" ", " ", " ", " ", " ", MoneyBag, " ">> \o course.price
            ELSE <<>>)
        \o (IF Has(course, "day")
            THEN <<" ", " ", " ", " ", " ", Calendar, " ">> \o course.day
            ELSE <<>>)
        \o <<"\n">>

\* combined_string after the first i records
RECURSIVE CombinedUpTo(_, _)
CombinedUpTo(courses, i) ==
    IF i = 0 THEN <<>>
    ELSE CombinedUpTo(courses, i - 1) \o CombinedLine(i, courses[i])

CombinedString(courses) == CombinedUpTo(courses, Len(courses))

\* headings: two short ones, one of exactly 100 characters, and two of 101
\* characters that differ in the last one
ShortHeading ==
    <<"A", "Q", "U", "A", " ", "|", " ", "N", "1", " ", "|", " ", "X">>
OtherShortHeading ==
    <<"A", "Q", "U", "A", " ", "|", " ", "N", "2", " ", "|", " ", "X">>
FullHeading == ShortHeading \o Repeat("x", HeadingCut - Len(ShortHeading))
LongHeading == FullHeading \o <<"a">>
OtherLongHeading == FullHeading \o <<"b">>

SampleRecords ==
    {[heading |-> h] :
        h \in {ShortHeading, OtherShortHeading, FullHeading, LongHeading,
               OtherLongHeading}}
    \cup {[heading |-> ShortHeading, price |-> <<"€", "5">>]}

RecordLists == UNION {[1..n -> SampleRecords] : n \in 0..MaxRecords}

InitFingerprint ==
    /\ now = 0
    /\ cycles = 0
    /\ variant = "browser_automation"
    /\ config = [notifications |-> {}, notify_unchanged |-> "silent"]
    /\ cache_file = AbsentFile
    /\ todo = <<>>
    /\ html_content = Unset
    /\ login_success = Unset
    /\ current_text = Unset
    /\ current_hash = NoHash
    /\ cached_data = UnsetData
    /\ verdict = "none"
    /\ raised = FALSE
    /\ events = <<>>
    /\ cache_before = cache_file
    /\ loop = LoopIdle
    /\ message = NoMessage
    /\ handed = {}
    /\ returned = NotCalled
    /\ document = <<>>
    /\ extracted = NotRun
    /\ HeadingsIdle
    /\ scroller = ScrollIdle
    /\ BrowserIdle
    /\ previous = NoPrevious
    /\ \E first \in RecordLists, second \in RecordLists :
          fingerprints = [pc |-> "first", runs |-> <<first, second>>,
                          cache |-> AbsentFile, verdicts |-> <<>>]

\* one run of main with a successful login and extraction: the combined
\* string of the records, its hash, the comparison with the cached hash, and
\* the save that every branch ends with
RunMain ==
    /\ fingerprints.pc \in {"first", "second"}
    /\ LET courses == fingerprints.runs[Len(fingerprints.verdicts) + 1]
           combined_string == CombinedString(courses)
           hash == MD5(combined_string)
           branch == MainBranch(GetCachedContent(fingerprints.cache), hash)
       IN fingerprints' =
              [fingerprints EXCEPT
                  !.pc = IF @ = "first" THEN "second" ELSE "done",
                  !.cache = CacheData(variant, combined_string, hash, now),
                  !.verdicts = Append(@, branch)]
    /\ UNCHANGED <<cycleVars, loop, dispatchVars, document, extracted,
                   headingVars, scroller, browserVars, previous>>

NextFingerprint == RunMain

SpecFingerprint == InitFingerprint /\ [][NextFingerprint]_vars

----------------------------------------------------------------------------
(* Cycles in which save_cached_content may fail with an I/O error, which it
   swallows; previous keeps, of the cycle before the current one, the verdict,
   the extracted text and how its save ended. *)

FailedWriteEvent == Event("write_failed", "cache", "-", "-")

\* how the save of the cycle in events ended
SaveOutcome ==
    IF \E i \in 1..Len(events) : events[i] = FailedWriteEvent THEN "failed"
    ELSE IF \E i \in 1..Len(events) : events[i] = WriteEvent THEN "written"
    ELSE "none"

\* the next cycle begins
StartNextCycle ==
    /\ BeginCycle
    /\ previous' = [verdict |-> verdict, text |-> current_text,
                    saved |-> SaveOutcome]
    /\ UNCHANGED <<loop, dispatchVars, document, extracted, headingVars,
                   scroller, browserVars, fingerprints>>

\* save_cached_content when open() or json.dump raises at once: the file is
\* left as it was, the error is logged and the method returns
SaveCachedContentFails ==
    /\ Running("save_cached_content")
    /\ events' = Append(events, FailedWriteEvent)
    /\ todo' = Tail(todo)
    /\ UNCHANGED <<variant, config, cache_file, now, cycles, html_content,
                   login_success, current_text, current_hash, cached_data,
                   verdict, raised, cache_before>>
    /\ UNCHANGED <<loop, dispatchVars, pureVars>>

NextSaveFails ==
    \/ StartNextCycle
    \/ FetchPageContent
    \/ ExtractTargetText
    \/ LoginWithPopup
    \/ ExtractAllOfferings
    \/ Compare
    \/ SendAllNotifications
    \/ SendTemporaryEmail
    \/ SendSms
    \/ SendDiscord
    \/ SendTelegram
    \/ SendSlack
    \/ SendWebhook
    \/ SaveCachedContent
    \/ SaveCachedContentFails
    \/ Cleanup

SpecSaveFails == Init /\ [][NextSaveFails]_vars

----------------------------------------------------------------------------
(* Reading the event log of the current cycle *)

Idx(e) == {i \in 1..Len(events) : events[i].e = e}

Writes == Cardinality(Idx("write"))
Reads == Cardinality(Idx("read"))
Dispatches == Cardinality(Idx("dispatch"))

\* transport attempts on channel ch, of any message / of message kind msg
Attempts(ch) == Cardinality({i \in Idx("attempt") : events[i].ch = ch})
AttemptsOf(ch, msg) ==
    Cardinality({i \in Idx("attempt") :
                    events[i].ch = ch /\ events[i].msg = msg})

NoSends == Idx("attempt") = {} /\ Idx("dispatch") = {}

SomeSendFailed == \E i \in Idx("attempt") : events[i].out # "ok"

\* the cycle reached the comparison and found a cache entry
CachePresent == cached_data.kind = "dict"

----------------------------------------------------------------------------
(* Claims *)

\* C1: in check_for_changes, when fetch_page_content fails or
\* extract_target_text finds nothing, the cycle is over at once, the cache
\* file is what it was before the cycle and nothing was read, written or
\* sent, whatever the cache held.
C1_FailedCycleLeavesCache ==
    (variant = "monitor" /\ (Falsy(html_content) \/ Falsy(current_text)))
        => /\ todo = <<>>
           /\ events = <<>>
           /\ cache_file = cache_before

\* a monitor cycle that found no target text while a good cache entry exists
C1_Witness ==
    /\ variant = "monitor"
    /\ CycleDone
    /\ html_content = "<html>"
    /\ current_text = None
    /\ cache_before.kind = "json"

\* C2 (as claimed): in the browser cycle, when login_with_popup returns False
\* or extraction yields no records, the cycle ends with the cache file as it
\* was and without a change alert.
C2_BrowserFailureLeavesCache ==
    (/\ variant = "browser_automation"
     /\ CycleDone
     /\ verdict # "error"
     /\ \/ login_success = "False"
        \/ (login_success = "True" /\ current_text = EmptyText))
        => /\ cache_file = cache_before
           /\ \A ch \in Channels : AttemptsOf(ch, "alert") = 0

\* C3: a cycle that reaches the comparison while no cache exists writes the
\* cache exactly once and sends nothing, whatever content it extracted, in
\* both variants.
C3_FirstRunWritesOnceSendsNothing ==
    (CycleDone /\ cached_data = NoneData)
        => /\ Writes = 1
           /\ NoSends
           /\ cache_file.kind = "json"
           /\ cache_file.text = current_text

\* a first run of a monitor that has channels configured
C3_Witness ==
    /\ CycleDone
    /\ cached_data = NoneData
    /\ cache_before = AbsentFile
    /\ config.notifications # {}
    /\ Writes = 1

\* C4 (as claimed): when a cache exists and its fingerprint differs from the
\* current one, every configured channel gets exactly one alert and the cache
\* then holds the new content and fingerprint.
C4_ChangeInvariant ==
    (CycleDone /\ CachePresent /\ cached_data.hash # current_hash)
        => /\ \A ch \in config.notifications : AttemptsOf(ch, "alert") = 1
           /\ \A ch \in Channels : Attempts(ch) <= 1
           /\ cache_file.text = current_text
           /\ cache_file.hash = current_hash

\* C5 (as claimed): an UNCHANGED cycle persists the observation anyway: the
\* cache timestamp is the time of this cycle, text and hash are as before.
C5_UnchangedRefreshesTimestamp ==
    (CycleDone /\ CachePresent /\ cached_data.hash = current_hash)
        => /\ cache_file.timestamp = now
           /\ cache_file.text = cache_before.text
           /\ cache_file.hash = cache_before.hash

\* C6 (as claimed): the notify-on-unchanged option is honoured: an UNCHANGED
\* cycle sends nothing under "silent" and exactly one heartbeat per configured
\* channel under "heartbeat".
C6_UnchangedPolicyHonoured ==
    (CycleDone /\ CachePresent /\ cached_data.hash = current_hash)
        => /\ config.notify_unchanged = "silent" => NoSends
           /\ config.notify_unchanged = "heartbeat" =>
                  \A ch \in config.notifications :
                      AttemptsOf(ch, "heartbeat") = 1

\* C7 (as claimed): when some channel's send raised or returned a non-success
\* status during a dispatch, every configured channel was still attempted
\* exactly once and no exception reached the caller.
C7_ChannelIsolation ==
    (CycleDone /\ verdict \in {"changed", "unchanged"} /\ SomeSendFailed)
        => /\ ~raised
           /\ \A ch \in config.notifications : Attempts(ch) = 1

\* C8 (as claimed): one send_all_notifications performs exactly one send
\* attempt for each key present in the config and none for any other key.
C8_EveryConfiguredChannelOnce ==
    (CycleDone /\ Dispatches = 1)
        => \A ch \in Channels :
              Attempts(ch) = IF ch \in config.notifications THEN 1 ELSE 0

\* C9 (as claimed): in a CHANGED cycle the cache write precedes every send.
C9_WriteBeforeSends ==
    verdict = "changed"
        => \A i \in Idx("attempt") \cup Idx("dispatch") :
              \E j \in Idx("write") : j < i

\* C9 (amended): in a CHANGED cycle the dispatcher runs before the new
\* observation is persisted: every send of the cycle precedes its one cache
\* write, and the write follows.
C9_SendsBeforeWrite ==
    verdict = "changed"
        => /\ \A i \in Idx("attempt") \cup Idx("dispatch") :
                 \A j \in Idx("write") : i < j
           /\ CycleDone => Writes = 1

\* a finished CHANGED cycle that sent on a channel and wrote the cache
C9_Witness ==
    /\ CycleDone
    /\ verdict = "changed"
    /\ Idx("attempt") # {}
    /\ Idx("write") # {}

\* C10: the classification is a function of the contents: against a cache
\* entry the monitor wrote, equal content is UNCHANGED, differing fingerprints
\* are CHANGED, and CHANGED is never the verdict for identical content.
C10_ClassificationByContent ==
    (CachePresent /\ verdict # "none")
        => /\ current_text = cached_data.text => verdict = "unchanged"
           /\ current_hash # cached_data.hash => verdict = "changed"
           /\ verdict = "changed" => current_text # cached_data.text

\* the second cycle of a run extracts the content its first cycle cached
C10_Witness ==
    /\ CycleDone
    /\ cycles = 2
    /\ CachePresent
    /\ cached_data.timestamp = 1
    /\ current_text = cached_data.text
    /\ verdict = "unchanged"
----------------------------------------------------------------------------
(* Claims on what the cache holds *)

\* C11: whenever the cache holds an entry, its hash is the MD5 digest of its
\* text, and save_cached_content is only ever called with a text and the
\* digest of that same text
C11_CacheHashMatchesText ==
    /\ cache_file.kind = "json" => cache_file.hash = MD5(cache_file.text)
    /\ Running("save_cached_content") => current_hash = MD5(current_text)

\* the cache was written in two successive cycles, the second after a change
C11_Witness ==
    /\ CycleDone /\ cycles = 2 /\ verdict = "changed" /\ Writes = 1
    /\ cache_before.kind = "json" /\ cache_before.timestamp = 1
    /\ cache_file.timestamp = 2

\* C12: a cycle that finds a cache file it cannot parse reads None, takes the
\* first-run branch, writes a fresh baseline once, sends nothing and raises
\* nothing, so the next cycle finds a well-formed entry
C12_CorruptCacheIsFirstRun ==
    (CycleDone /\ cache_before = CorruptFile /\ Reads = 1) =>
        /\ cached_data = NoneData
        /\ verdict = "first_run"
        /\ ~raised
        /\ NoSends
        /\ Writes = 1
        /\ cache_file = CacheData(variant, current_text, MD5(current_text), now)

\* a cycle with channels configured has run to its end on a corrupt file
C12_Witness ==
    /\ CycleDone /\ cache_before = CorruptFile /\ Reads = 1
    /\ config.notifications # {}
    /\ cache_file.kind = "json"

\* C14: a cycle that finds a cache object lacking some of the keys text, hash,
\* timestamp, url, or holding one key more, completes without raising
C14_PartialCacheTolerated ==
    (CycleDone /\ cache_before.kind = "json" /\ Reads = 1) =>
        /\ ~raised
        /\ verdict \in {"first_run", "changed", "unchanged"}

\* C13: a process that dies during a cycle leaves in the cache file either the
\* complete entry the cycle found or the complete entry it was writing
C13_WriteAllOrNothing ==
    verdict = "crashed" =>
        \/ cache_file = cache_before
        \/ cache_file = CacheData(variant, current_text, current_hash, now)

----------------------------------------------------------------------------
(* Claims on the dispatcher *)

\* C15: a CHANGED cycle of check_for_changes in which channel sends fail still
\* overwrites the cache with the new content and digest and returns normally
C15_SendFailureStillSaves ==
    (variant = "monitor" /\ CycleDone /\ verdict = "changed"
        /\ SomeSendFailed) =>
        /\ ~raised
        /\ Writes = 1
        /\ events[Len(events)] = WriteEvent
        /\ cache_file = CacheData(variant, current_text, MD5(current_text), now)
        /\ cache_file # cache_before

\* a CHANGED cycle in which every send failed, one of them by raising
C15_Witness ==
    /\ variant = "monitor" /\ CycleDone /\ verdict = "changed"
    /\ Cardinality(Idx("attempt")) >= 2
    /\ \A i \in Idx("attempt") : events[i].out # "ok"
    /\ \E i \in Idx("attempt") : events[i].out = "raise"
    /\ Writes = 1

\* C16: send_all_notifications returns a report with one entry per configured
\* channel, each recording success or failure
C16_ReturnsPerChannelReport ==
    Dispatched =>
        /\ returned.value # None
        /\ DOMAIN returned.value = config.notifications
        /\ \A ch \in config.notifications :
              returned.value[ch] \in {"success", "failure"}

\* C17: the text send_all_notifications hands to send_sms is the message itself
\* when it has at most 150 characters, else its first 150 characters followed
\* by "...", and is never longer than 160 characters; every other send_*
\* method is handed the message itself
C17_SmsTruncated ==
    Dispatched =>
        \A h \in handed :
            IF h.op = "send_sms"
            THEN /\ Len(message) <= 150 => h.msg = message
                 /\ Len(message) > 150 =>
                       /\ Len(h.msg) = 153
                       /\ \A i \in 1..150 : h.msg[i] = message[i]
                       /\ \A i \in 151..153 : h.msg[i] = Ellipsis[i - 150]
                 /\ Len(h.msg) <= SmsCap
            ELSE h.msg = message

\* a message longer than 150 characters went to an SMS channel and to another
C17_Witness ==
    /\ Dispatched
    /\ Len(message) > SmsKeep
    /\ \E h \in handed : h.op = "send_sms" /\ h.msg # message
    /\ \E h \in handed : h.op # "send_sms"

\* C18: a send_* method reaches a transport only for a key present in the
\* notifications mapping; with an empty mapping nothing is sent; a key that is
\* present is used whatever else its settings say
C18_SendOnlyIfKeyPresent ==
    returned.call # "none" =>
        /\ \A h \in handed : h.ch \in config.notifications
        /\ config.notifications = {} => handed = {}
        /\ Dispatched =>
              \A k \in SeqRange(ChatKeys) \cap config.notifications :
                  \E h \in handed : h.ch = k
        /\ \A op \in DirectOps :
              (returned.call = op /\ Provider(op, config.notifications) # None)
                  => handed # {}

\* the dispatcher sent on a chat channel whose settings carry "enabled": false
C18_Witness ==
    /\ Dispatched
    /\ config.switched_off # {}
    /\ \E h \in handed : h.ch \in config.switched_off /\ h.op = "send_slack"

----------------------------------------------------------------------------
(* Claims on run_forever *)

\* C19: a KeyboardInterrupt at any point of run_forever ends the loop with
\* run_forever returning normally, never with the interrupt propagating
C19_InterruptReturnsNormally ==
    loop.last = "interrupt" => loop.pc = "returned"

\* C20: a cycle that raises sends run_forever to its fallback sleep, not out
\* of the loop; the loop ends only on an interrupt; and every cycle that ended,
\* by returning or by raising, is followed by the start of a new cycle unless
\* an interrupt arrives
C20_LoopOutlivesFailures ==
    /\ [](loop.pc = "fallback" => loop.last = "error" /\ raised)
    /\ [](loop.pc \in {"returned", "escaped"} => loop.last = "interrupt")
    /\ \A n \in 1..(MaxCycles - 1) :
          (loop.pc = "cycle" /\ todo = <<>> /\ cycles = n)
              ~> (\/ loop.pc = "cycle" /\ cycles = n + 1
                  \/ loop.last = "interrupt")

\* a new cycle is running after a cycle that raised
C20_Witness ==
    /\ loop.pc = "cycle" /\ loop.last = "error"
    /\ cycles = 2 /\ todo # <<>> /\ ~raised

----------------------------------------------------------------------------
(* Claims on the exits of a cycle *)

Cleanups == Cardinality(Idx("cleanup"))

\* C21: in the browser variant cleanup() has not run while the cycle is under
\* way, and has run exactly once, as the last thing, when main is left, whether
\* the cycle succeeded, the login failed, or an exception was raised during
\* login, extraction or the comparison
C21_CleanupExactlyOnce ==
    variant = "browser_automation" =>
        /\ todo # <<>> => Cleanups = 0
        /\ CycleDone =>
              /\ Cleanups = 1
              /\ events[Len(events)] = CleanupEvent

\* main was left by an exception raised in the comparison, after cleanup
C21_Witness ==
    /\ variant = "browser_automation" /\ CycleDone
    /\ raised /\ Reads = 1 /\ Cleanups = 1

\* C28: a cycle that reaches the comparison reads the cache once and writes it
\* once, after the read; a cycle that failed at fetch, login or extraction
\* neither reads nor writes it
C28_ReadOnceWriteOnce ==
    CycleDone =>
        /\ Reads <= 1
        /\ Reads = 1 =>
              /\ Writes = 1
              /\ \A r \in Idx("read"), w \in Idx("write") : r < w
        /\ (\/ variant = "monitor" /\ Falsy(html_content)
            \/ variant = "monitor" /\ Falsy(current_text)
            \/ login_success \in {"False", "raise"}
            \/ verdict = "error") => (Reads = 0 /\ Writes = 0)

----------------------------------------------------------------------------
(* Claims on extract_target_text *)

\* the trimmed text t is longer than min_text_length and holds every keyword,
\* letter case aside
MeetsBoth(t) ==
    /\ Len(t) > config.min_text_length
    /\ \A i \in 1..Len(config.target_text_keywords) :
          LET k == Lower(config.target_text_keywords[i]) IN
          \E j \in 1..Len(t) :
              /\ j + Len(k) - 1 <= Len(t)
              /\ \A d \in 1..Len(k) : LowerChar(t[j + d - 1]) = k[d]

NotSpace(c) == ~IsSpace(c)

\* u is t with every run of whitespace turned into one space
CollapsedFrom(u, t) ==
    /\ SelectSeq(u, NotSpace) = SelectSeq(t, NotSpace)
    /\ \A i \in 1..Len(u) : IsSpace(u[i]) => u[i] = " "
    /\ \A i \in 1..(Len(u) - 1) : ~(IsSpace(u[i]) /\ IsSpace(u[i + 1]))
    /\ Len(u) = Len(SelectSeq(t, NotSpace))
                 + Cardinality({i \in 2..Len(t) :
                                   IsSpace(t[i]) /\ ~IsSpace(t[i - 1])})

\* the text nodes of the page that qualify, by position in document order
QualifyingNodes ==
    {i \in 1..Len(TextNodes(document)) :
        MeetsBoth(Strip(TextNodes(document)[i]))}

\* the p, div, span and article elements that qualify on their full text
QualifyingElements ==
    {i \in 1..Len(document) :
        /\ document[i].tag \in {"p", "div", "span", "article"}
        /\ MeetsBoth(GetText(document[i]))}

\* C22: when some text node qualifies, extract_target_text returns the text of
\* the first one in document order, trimmed, with every run of whitespace
\* turned into a single space
C22_FirstQualifyingNode ==
    (extracted.ran /\ QualifyingNodes # {}) =>
        LET t == Strip(TextNodes(document)[Min(QualifyingNodes)]) IN
        /\ extracted.found
        /\ CollapsedFrom(extracted.text, t)

\* a padded node with a whitespace run was returned, after a node that fails
C22_Witness ==
    /\ extracted.ran /\ extracted.found
    /\ QualifyingNodes # {}
    /\ Min(QualifyingNodes) > 1
    /\ TextNodes(document)[Min(QualifyingNodes)] = PaddedText
    /\ extracted.text = <<"A", " ", "b">>

\* C23: when no text node qualifies, extract_target_text returns the text of
\* the first qualifying p, div, span or article element in document order, and
\* NotFound only when no such element qualifies
C23_FallbackDocumentOrder ==
    (extracted.ran /\ QualifyingNodes = {}) =>
        IF QualifyingElements = {} THEN ~extracted.found
        ELSE /\ extracted.found
             /\ CollapsedFrom(extracted.text,
                              GetText(document[Min(QualifyingElements)]))

----------------------------------------------------------------------------
(* extract_course_headings: what it returned, against the page *)

Returned == unique_courses.courses

FieldNames == <<"activity", "code", "description", "schedule">>

\* the (activity, code, description) key of a record
Key(r) ==
    <<Get(r, "activity", <<>>), Get(r, "code", <<>>),
      Get(r, "description", <<>>)>>

\* the text of the element at a position of the page
TextAt(i) == Strip(page[i].text)

\* the record of the element at a position, whatever selector found it
RecordAt(i) ==
    CleanCourse(CourseInfo([selector |-> "", elem |-> i, text |-> TextAt(i)]))

\* positions of the found elements whose cleaned heading is long enough
CandidatePositions ==
    {i \in 1..Len(page) :
        /\ \E n \in 1..Len(found_elements) : found_elements[n].elem = i
        /\ TextLen(RecordAt(i).heading) > MinHeadingLen}

\* first position in document order of a candidate with the key
FirstOf(key) == Min({i \in CandidatePositions : Key(RecordAt(i)) = key})

\* C25: the heading 'F1 | F2 | F3 | F4 | €<price> S'inscrire' is cleaned to
\* exactly 'F1 | F2 | F3 | F4' and yields the record with activity F1, code
\* F2, description F3 and schedule F4
C25_ExampleCleaned ==
    (unique_courses.done
        /\ \E n \in 1..Len(found_elements) :
              found_elements[n].text = ExampleHeading) =>
        \E j \in 1..Len(Returned) :
            /\ Returned[j].heading = Heading(ExampleFields)
            /\ \A k \in 1..4 :
                  /\ Has(Returned[j], FieldNames[k])
                  /\ Returned[j][FieldNames[k]] = ExampleFields[k]

\* C26: in every returned record activity, code, description and schedule are
\* the positional segments of the record's cleaned heading split on '|': a
\* field is present iff the heading has that many segments, and no field is
\* an empty string or a value of the uncleaned heading
C26_FieldsAreSegments ==
    unique_courses.done =>
        \A j \in 1..Len(Returned) :
            LET parts == Parts(Returned[j].heading) IN
            \A k \in 1..4 :
                /\ Has(Returned[j], FieldNames[k]) <=> Len(parts) >= k
                /\ Has(Returned[j], FieldNames[k]) =>
                      /\ Returned[j][FieldNames[k]] = parts[k]
                      /\ Returned[j][FieldNames[k]] # <<>>

\* extract_course_headings run from the start on a page
RECURSIVE FoundFrom(_, _, _, _)
FoundFrom(pg, pos, good, found) ==
    IF pos > Len(SelectorsToTry) \/ StopsEarly(good, found) THEN found
    ELSE LET new == Collect(pg, SelectorsToTry[pos],
                            QuerySelectorAll(pg, SelectorsToTry[pos]))
         IN FoundFrom(pg, pos + 1, good \/ new # <<>>, found \o new)

ExtractCourseHeadings(pg) ==
    Dedupe(Courses(FoundFrom(pg, 1, FALSE, <<>>)), <<>>, {})

\* C24: extract_course_headings returns no two records with the same
\* (activity, code, description) key, keeps for each key of a candidate the
\* first occurrence in document order, and returns the same records when it
\* is applied to the same page again
C24_DedupLaw ==
    unique_courses.done =>
        /\ \A j, k \in 1..Len(Returned) :
              j # k => Key(Returned[j]) # Key(Returned[k])
        /\ \A i \in CandidatePositions :
              \E j \in 1..Len(Returned) :
                  /\ Key(Returned[j]) = Key(RecordAt(i))
                  /\ Returned[j].heading =
                         RecordAt(FirstOf(Key(RecordAt(i)))).heading
        /\ ExtractCourseHeadings(page) = Returned

\* C27: the returned records are in document order of the first occurrence
\* of their keys, whichever selector found each element
C27_DocumentOrder ==
    unique_courses.done =>
        \A j, k \in 1..Len(Returned) :
            j < k => FirstOf(Key(Returned[j])) < FirstOf(Key(Returned[k]))

\* C30: every returned record derives from an element whose text contains
\* '|' and a keyword of the list, does not start with the euro sign and does
\* not contain 'disponibles', and its cleaned heading is longer than 10
\* characters
C30_RecordsFromCandidates ==
    unique_courses.done =>
        \A j \in 1..Len(Returned) :
            /\ TextLen(Returned[j].heading) > MinHeadingLen
            /\ \E i \in 1..Len(page) :
                  /\ Returned[j].heading = CleanHeading(TextAt(i))
                  /\ "|" \in SeqRange(TextAt(i))
                  /\ \E w \in SeqRange(TextAt(i)) : UpperWord(w) \in Keywords
                  /\ TextAt(i)[1] # "€"
                  /\ \A w \in SeqRange(TextAt(i)) :
                        w \notin {"disponibles", "Disponibles"}

\* a record was returned from a page that also holds a price-only text, an
\* availability text or a heading too short once cleaned
C30_Witness ==
    /\ unique_courses.done
    /\ Len(Returned) = 1
    /\ Len(page) = 2
    /\ \E i \in 1..Len(page) :
          page[i].text \in {PriceOnly, Availability, ShortOnceCleaned}

\* number of found elements a selector supplied, and all earlier ones did
Yield(k) ==
    Cardinality({n \in 1..Len(found_elements) :
                    found_elements[n].selector = SelectorsToTry[k].css})

RECURSIVE FoundBefore(_)
FoundBefore(k) == IF k = 1 THEN 0 ELSE FoundBefore(k - 1) + Yield(k - 1)

Queried == SeqRange(scan.queried)

InListedOrder == scan.queried = [n \in 1..Len(scan.queried) |-> n]

\* C29 as stated: the selectors are tried in the listed order, and a selector
\* is left untried exactly when an earlier one alone supplied more than 5
\* candidates
C29_StopsAfterRichStrategy ==
    unique_courses.done =>
        /\ InListedOrder
        /\ \A k \in 1..Len(SelectorsToTry) :
              k \in Queried <=> ~\E j \in 1..(k - 1) : Yield(j) > StopThreshold

\* C29: the selectors are tried in the listed order, and a selector is left
\* untried exactly when the earlier ones together supplied more than 5
\* candidates
C29_StopsOnTotalFound ==
    unique_courses.done =>
        /\ InListedOrder
        /\ \A k \in 1..Len(SelectorsToTry) :
              k \in Queried <=> FoundBefore(k) <= StopThreshold

\* the loop was left before its end although no selector supplied more than
\* 5 candidates
C29_Witness ==
    /\ unique_courses.done
    /\ Len(scan.queried) < Len(SelectorsToTry)
    /\ \A k \in 1..Len(SelectorsToTry) : Yield(k) <= StopThreshold
    /\ Len(found_elements) > StopThreshold

\* the record of a found element, and whether the length test lets it pass
FoundRecord(n) == CleanCourse(CourseInfo(found_elements[n]))

LongEnough(n) == TextLen(Strip(FoundRecord(n).heading)) > MinHeadingLen

\* the (activity, code, description) tuple of a record, an absent field
\* kept apart from an empty one
FieldTuple(r) ==
    [k \in {"activity", "code", "description"} \cap DOMAIN r |-> r[k]]

\* C33: the dedup drops no record whose (activity, code, description) tuple
\* differs from the tuple of every record kept before it, so the tuple of
\* every record that passes the length test is the tuple of a returned one
C33_DistinctTuplesKept ==
    unique_courses.done =>
        \A n \in 1..Len(found_elements) :
            LongEnough(n) =>
                \E j \in 1..Len(Returned) :
                    FieldTuple(Returned[j]) = FieldTuple(FoundRecord(n))

\* number of scrolls performed: one height is read after each
Scrolls == Len(scroller.heights) - 1

\* the k-th scroll left the page height as it was
Unchanged(k) == scroller.heights[k + 1] = scroller.heights[k]

ScrollReturned ==
    /\ scroller.pc = "returned"
    /\ scroller.value = Scrolls
    /\ Scrolls <= scroller.max_scrolls
    /\ \A k \in 1..(Scrolls - 1) : ~Unchanged(k)
    /\ Scrolls < scroller.max_scrolls => Unchanged(Scrolls)

\* C31: scroll_to_load_all_content terminates whatever heights the page
\* reports: it never scrolls more than max_scrolls times, and it returns, right
\* after the first scroll that leaves the height unchanged or after max_scrolls
\* scrolls, the number of scrolls performed
C31_ScrollTerminates ==
    /\ [](scroller.pc # "idle" => Scrolls <= scroller.max_scrolls)
    /\ [](scroller.pc = "returned" => ScrollReturned)
    /\ <>(scroller.pc = "returned")

\* returned 2 of 3 allowed scrolls: the first changed the height, the second
\* did not
C31_Witness ==
    /\ scroller.pc = "returned"
    /\ scroller.max_scrolls = 3
    /\ scroller.value = 2
    /\ ~Unchanged(1) /\ Unchanged(2)

----------------------------------------------------------------------------
(* login_with_popup: the acts it called, and what it returned *)

\* positions in acts of the clicks, fills and checks of a step that returned
Done(step) ==
    {i \in 1..Len(popup.acts) : popup.acts[i].step = step /\ popup.acts[i].ok}

C35_LoginNeverRaises ==
    popup.pc = "returned" => popup.value \in {"True", "False"}

\* C36: no browser resource leaks: when main is over, the Playwright driver,
\* the browser and the context, once acquired, have been released, also when
\* the construction failed part-way or a close raised in cleanup
C36_NoResourceLeak ==
    resources.pc = "exit" =>
        /\ resources.playwright # "open"
        /\ resources.browser # "open"
        /\ resources.context # "open"

\* the cleaned headings of a record list
HeadingsOf(courses) == [i \in 1..Len(courses) |-> courses[i].heading]

\* C37: two record lists that differ in the cleaned heading of some record
\* give different fingerprinted strings, so the second run is classified
\* changed
C37_FingerprintTellsHeadings ==
    (fingerprints.pc = "done"
        /\ HeadingsOf(fingerprints.runs[1]) # HeadingsOf(fingerprints.runs[2]))
        => fingerprints.verdicts[2] = "changed"

\* calls of the current cycle that carry the change alert
ChangeAlerts ==
    {i \in 1..Len(events) :
        events[i].e \in {"dispatch", "attempt"} /\ events[i].msg = "alert"}

\* C34: a content change is alerted at most once: when the cycle before was
\* classified changed, a cycle that extracts the same content dispatches no
\* change alert, also when the save of the cycle before failed
C34_ChangeAlertedOnce ==
    (previous.verdict = "changed" /\ current_text = previous.text)
        => ChangeAlerts = {}

============================================================================
